---- MODULE Spec2Model ----
(***************************************************************************)
(* Model of the customer clustering front end (app.py, utilsfe.py,         *)
(* ui_components.py): the Streamlit session state machine of app.py, the   *)
(* normalization of a clustering response into the heatmap table, the      *)
(* flattening of a continent-analysis response and the local continent     *)
(* aggregation.  pandas tables are modelled as (index, columns, data)      *)
(* with the operations the code applies to them.                           *)
(***************************************************************************)
EXTENDS Integers, Sequences, FiniteSets, TLC

(***************************************************************************)
(* Bounds of the model.                                                    *)
(***************************************************************************)
\* largest number of countries in a clustering response
MaxRows == 2
\* largest number of customers of one country, over the segments "0", "1", "2"
MaxCount == 1
\* largest number of continent entries in a continent-analysis response
MaxEntries == 2
\* largest total_revenue / customer_count value of a continent entry
MaxRevenue == 1
\* largest number of rows of a customer table given to the local aggregation
MaxTableRows == 3
\* number of distinct CustomerID values in such a table
MaxCustomerID == 2
\* largest number of clicks of a recovery from a failure
MaxRecoveryClicks == 3
\* most columns of a table of customer records
MaxColumns == 3
\* most rows of the company table given to the results view
MaxCompanyRows == 2

(***************************************************************************)
(* Cells of a table and JSON values.                                       *)
(***************************************************************************)
IntCell(n) == [n |-> n, k |-> "int", s |-> ""]
StrCell(s) == [n |-> 0, k |-> "str", s |-> s]
NaN == [n |-> 0, k |-> "nan", s |-> ""]
\* a cell holding a Python object that is neither a number nor a string
ObjCell == [n |-> 0, k |-> "obj", s |-> ""]

\* A dict is a sequence of <<key, value>> pairs with distinct keys, in
\* iteration order.  A JSON value is a dict of cells, a scalar or a text
\* (a message).
JMap(m) == [m |-> m, t |-> "map", c |-> NaN, msg |-> ""]
JScalar(c) == [m |-> <<>>, t |-> "scalar", c |-> c, msg |-> ""]
JText(msg) == [m |-> <<>>, t |-> "text", c |-> NaN, msg |-> msg]
\* a JSON list of scalars or of dicts
JList(l) == [m |-> l, t |-> "list", c |-> NaN, msg |-> ""]
\* a cell holding the float of a whole number
FloatCell(n) == [n |-> n, k |-> "float", s |-> ""]

Keys(d) == [i \in 1..Len(d) |-> d[i][1]]
Has(d, key) == \E i \in 1..Len(d) : d[i][1] = key
Get(d, key) == d[CHOOSE i \in 1..Len(d) : d[i][1] = key][2]
Range(f) == {f[i] : i \in DOMAIN f}
Contains(seq, e) == \E i \in 1..Len(seq) : seq[i] = e
IndexOf(seq, e) == CHOOSE i \in 1..Len(seq) : seq[i] = e

RECURSIVE SumSeq(_)
SumSeq(seq) == IF seq = <<>> THEN 0 ELSE Head(seq) + SumSeq(Tail(seq))

\* the sequences of distinct elements of S of length at most n
DistinctSeqs(S, n) ==
    UNION {{q \in [1..m -> S] : \A i, j \in 1..m : q[i] = q[j] => i = j} : m \in 0..n}

\* the dicts whose keys are distinct elements of K (at most n of them) and
\* whose values are drawn from V
DictsOver(K, V, n) ==
    UNION {{[i \in 1..Len(ks) |-> <<ks[i], vs[i]>>] : vs \in [1..Len(ks) -> V]} :
           ks \in DistinctSeqs(K, n)}

(***************************************************************************)
(* pandas: a DataFrame is its index labels, its column labels and its rows *)
(* (each row a sequence of cells aligned with the columns).  An operation  *)
(* that can raise returns [raised, exc, df].                               *)
(***************************************************************************)
Frame(index, columns, data) == [index |-> index, columns |-> columns, data |-> data]
EmptyFrame == Frame(<<>>, <<>>, <<>>)
Ok(df) == [df |-> df, raised |-> FALSE, exc |-> ""]
Raise(exc) == [df |-> EmptyFrame, raised |-> TRUE, exc |-> exc]

\* the label of the single column pandas creates for a list of scalars: the
\* integer 0, which is not the string '0'
IntLabel0 == "<int 0>"

RangeIndex(n) == [i \in 1..n |-> IntCell(i - 1)]
Column(df, name) == [i \in 1..Len(df.data) |-> df.data[i][IndexOf(df.columns, name)]]

RECURSIVE AppendNew(_, _)
AppendNew(acc, ks) ==
    IF ks = <<>> THEN acc
    ELSE AppendNew(IF Contains(acc, Head(ks)) THEN acc ELSE Append(acc, Head(ks)), Tail(ks))

\* the column labels of a dict of dicts: the inner keys in first-seen order
RECURSIVE UnionColumns(_, _)
UnionColumns(data, acc) ==
    IF data = <<>> THEN acc
    ELSE UnionColumns(Tail(data), AppendNew(acc, Keys(Head(data)[2].m)))

CellOfScalar(v) == IF v.t = "scalar" THEN v.c ELSE IF v.t = "text" THEN StrCell("text") ELSE ObjCell

\* pd.DataFrame.from_dict(data, orient='index')
DataFrame_from_dict(data) ==
    IF Len(data) = 0 THEN Ok(EmptyFrame)
    ELSE IF data[1][2].t = "map"
    THEN IF \E i \in 1..Len(data) : data[i][2].t # "map"
         THEN Raise("AttributeError")
         ELSE LET cols == UnionColumns(data, <<>>)
              IN Ok(Frame([i \in 1..Len(data) |-> StrCell(data[i][1])], cols,
                          [i \in 1..Len(data) |->
                              [j \in 1..Len(cols) |->
                                  IF Has(data[i][2].m, cols[j])
                                  THEN Get(data[i][2].m, cols[j]) ELSE NaN]]))
    ELSE Ok(Frame([i \in 1..Len(data) |-> StrCell(data[i][1])], <<IntLabel0>>,
                  [i \in 1..Len(data) |-> <<CellOfScalar(data[i][2])>>]))

\* df.reset_index(inplace=True): the index becomes the first column
reset_index(df) ==
    LET name == IF Contains(df.columns, "index") THEN "level_0" ELSE "index"
    IN Frame(RangeIndex(Len(df.data)), <<name>> \o df.columns,
             [i \in 1..Len(df.data) |-> <<df.index[i]>> \o df.data[i]])

\* df.rename(columns=mapping, inplace=True), mapping a dict of labels
rename(df, mapping) ==
    Frame(df.index,
          [j \in 1..Len(df.columns) |->
              IF Has(mapping, df.columns[j]) THEN Get(mapping, df.columns[j])
              ELSE df.columns[j]],
          df.data)

\* df.set_index(name)
set_index(df, name) ==
    IF ~Contains(df.columns, name) THEN Raise("KeyError")
    ELSE LET p == IndexOf(df.columns, name)
             keep == SelectSeq([j \in 1..Len(df.columns) |-> j], LAMBDA j : j # p)
         IN Ok(Frame(Column(df, name),
                     [j \in 1..Len(keep) |-> df.columns[keep[j]]],
                     [i \in 1..Len(df.data) |->
                         [j \in 1..Len(keep) |-> df.data[i][keep[j]]]]))

\* df[[names]]
select(df, names) ==
    IF \E j \in 1..Len(names) : ~Contains(df.columns, names[j]) THEN Raise("KeyError")
    ELSE Ok(Frame(df.index, names,
                  [i \in 1..Len(df.data) |->
                      [j \in 1..Len(names) |-> df.data[i][IndexOf(df.columns, names[j])]]]))

(***************************************************************************)
(* The library build.  Two things the code relies on are not fixed by the  *)
(* source: the order sort_values gives to rows with equal keys (the code   *)
(* takes pandas' default kind='quicksort', which is not a stable sort), and*)
(* whether DataFrame.sum(axis=1) silently drops non-numeric columns when   *)
(* the sum over all columns raises TypeError (pandas 1.x) or lets the      *)
(* TypeError out (pandas 2.x).  A build fixes both for a whole session.    *)
(***************************************************************************)
TieOrders == {"original", "reversed"}
Builds == [ties : TieOrders, numeric_fallback : BOOLEAN]

Perms(n) == {q \in [1..n -> 1..n] : \A i, j \in 1..n : q[i] = q[j] => i = j}

\* key order of sort_values: numbers by value, NaN after everything else
\* (na_position='last'); the text cells of the model are all the same text
KeyGreater(a, b) ==
    \/ a.k = "int" /\ b.k = "int" /\ a.n > b.n
    \/ a.k # "nan" /\ b.k = "nan"
KeyEqual(a, b) == ~KeyGreater(a, b) /\ ~KeyGreater(b, a)

\* the row order of df.sort_values(by, ascending=False) for the keys of the
\* column: descending keys, equal keys in the order the build gives them
SortOrder(keys, ties) ==
    CHOOSE p \in Perms(Len(keys)) :
        \A a, b \in 1..Len(keys) : a < b =>
            \/ KeyGreater(keys[p[a]], keys[p[b]])
            \/ KeyEqual(keys[p[a]], keys[p[b]]) /\
                   IF ties = "original" THEN p[a] < p[b] ELSE p[a] > p[b]

\* df.sort_values(by, ascending=False)
sort_values(df, by, ties) ==
    IF ~Contains(df.columns, by) THEN Raise("KeyError")
    ELSE LET keys == Column(df, by)
         IN IF /\ \E i \in 1..Len(keys) : keys[i].k \in {"str", "obj"}
               /\ \E i \in 1..Len(keys) : keys[i].k = "int"
            THEN Raise("TypeError")
            ELSE LET p == SortOrder(keys, ties)
                 IN Ok(Frame([i \in 1..Len(p) |-> df.index[p[i]]], df.columns,
                             [i \in 1..Len(p) |-> df.data[p[i]]]))

\* df.drop(name, axis=1)
drop(df, name) ==
    LET keep == SelectSeq([j \in 1..Len(df.columns) |-> j],
                          LAMBDA j : df.columns[j] # name)
    IN Frame(df.index, [j \in 1..Len(keep) |-> df.columns[keep[j]]],
             [i \in 1..Len(df.data) |-> [j \in 1..Len(keep) |-> df.data[i][keep[j]]]])

\* df[name] = values, name a new column
assign(df, name, values) ==
    Frame(df.index, Append(df.columns, name),
          [i \in 1..Len(df.data) |-> Append(df.data[i], values[i])])

RECURSIVE ConcatCells(_)
ConcatCells(row) == IF row = <<>> THEN "" ELSE Head(row).s \o ConcatCells(Tail(row))

NumericSum(row, cols) ==
    SumSeq([j \in 1..Len(row) |-> IF j \in cols /\ row[j].k = "int" THEN row[j].n ELSE 0])

\* df.sum(axis=1): the values of the new column, or the exception
sum_axis1(df, numeric_fallback) ==
    LET n == Len(df.data)
        allcols == 1..Len(df.columns)
        \* the columns of dtype object
        objcols == {j \in allcols : \E i \in 1..n : df.data[i][j].k \in {"str", "obj"}}
        text(row) == \A j \in allcols : row[j].k = "str"
        mixed(row) == (\E j \in allcols : row[j].k \in {"str", "obj"}) /\ ~text(row)
    IN IF \E i \in 1..n : mixed(df.data[i])
       THEN IF numeric_fallback
            THEN [raised |-> FALSE, exc |-> "",
                  values |-> [i \in 1..n |-> IntCell(NumericSum(df.data[i], allcols \ objcols))]]
            ELSE [raised |-> TRUE, exc |-> "TypeError", values |-> <<>>]
       ELSE [raised |-> FALSE, exc |-> "",
             values |-> [i \in 1..n |->
                 IF allcols # {} /\ text(df.data[i])
                 THEN StrCell(ConcatCells(df.data[i]))
                 ELSE IntCell(NumericSum(df.data[i], allcols))]]

SegmentLabels == <<"Premium", "Frequent", "Budget">>

\* heatmap_data = clustered_df.set_index('Country')[['Premium','Frequent','Budget']]
\* heatmap_data['Total'] = heatmap_data.sum(axis=1)
\* heatmap_data = heatmap_data.sort_values('Total', ascending=False).drop('Total', axis=1)
heatmap_data_of(clustered_df, build) ==
    LET indexed == set_index(clustered_df, "Country")
    IN IF indexed.raised THEN indexed
       ELSE LET picked == select(indexed.df, SegmentLabels)
            IN IF picked.raised THEN picked
               ELSE LET total == sum_axis1(picked.df, build.numeric_fallback)
                    IN IF total.raised THEN Raise(total.exc)
                       ELSE LET sorted == sort_values(assign(picked.df, "Total", total.values),
                                                      "Total", build.ties)
                            IN IF sorted.raised THEN sorted
                               ELSE Ok(drop(sorted.df, "Total"))

cluster_names == << <<"0", "Premium">>, <<"1", "Frequent">>, <<"2", "Budget">> >>

\* the table built by lines 189-193 of main_app, or the exception
clustered_df_of(result) ==
    LET made == DataFrame_from_dict(result)
    IN IF made.raised THEN made
       ELSE Ok(rename(rename(reset_index(made.df), << <<"index", "Country">> >>),
                      cluster_names))

(***************************************************************************)
(* HTTP exchanges and the backend wrappers of utilsfe.py / app.py.         *)
(* An exchange either raises in requests.post or returns a response with a *)
(* status, a text and, when the text is JSON, the decoded body.            *)
(***************************************************************************)
Texts == {"boom", "KeyError"}
ExceptionTypes == {"ConnectionError", "Timeout"}
\* what response.json() raises for a body that is not JSON: the requests
\* exception (a RequestException and a ValueError; requests 2.27 and later)
\* or json's / simplejson's JSONDecodeError (a ValueError only)
JsonErrorTypes == {"RequestsJSONDecodeError", "JSONDecodeError"}

\* isinstance(e, cls) for the exception classes of the except clauses
IsInstance(exc_type, cls) ==
    \/ cls = "Exception"
    \/ cls = exc_type
    \/ cls = "RequestException"
           /\ exc_type \in {"ConnectionError", "Timeout", "TooManyRedirects",
                             "RequestsJSONDecodeError"}
    \/ cls = "ValueError" /\ exc_type \in {"RequestsJSONDecodeError", "JSONDecodeError"}
FailureStatuses == {404, 500}

Exchange(outcome, exc_type, status, is_json, text, body) ==
    [text |-> text, exc_type |-> exc_type, outcome |-> outcome, status |-> status, is_json |-> is_json, body |-> body]

\* the exchanges that do not end in a 200 response with a JSON body
FailedExchanges ==
    {Exchange("exception", e, 0, FALSE, t, <<>>) : e \in ExceptionTypes, t \in Texts}
    \cup {Exchange("response", "", c, FALSE, t, <<>>) : c \in FailureStatuses, t \in Texts}
    \cup {Exchange("response", j, 200, FALSE, t, <<>>) : j \in JsonErrorTypes, t \in Texts}

\* the exchanges that end in a 200 response whose JSON body is in bodies
OkExchanges(bodies) == {Exchange("response", "", 200, TRUE, "", b) : b \in bodies}

ErrorDict(message) == << <<"error", JText(message)>> >>

\* how a call ends: it returns a value or an exception leaves it
Returns(value) == [raised |-> FALSE, exc |-> "", value |-> value]
Raises(exc) == [raised |-> TRUE, exc |-> exc, value |-> <<>>]

\* the exception raised inside the try block of a wrapper that decodes the
\* body of a 200 response only: by requests.post, or by response.json()
\* for a body that is not JSON; "" if there is none
post_exception(x) ==
    IF x.outcome = "exception" THEN x.exc_type
    ELSE IF x.status = 200 /\ ~x.is_json THEN x.exc_type
    ELSE ""

\* utilsfe.call_backend, lines 23-43: the inner try catches ValueError, the
\* outer one Exception
try_call_backend(x) ==
    IF x.outcome = "exception"
    THEN IF IsInstance(x.exc_type, "Exception")
         THEN Returns(ErrorDict(x.exc_type \o ": " \o x.text))
         ELSE Raises(x.exc_type)
    ELSE IF x.status # 200
    THEN Returns(ErrorDict("HTTP " \o ToString(x.status) \o ": " \o x.text))
    ELSE IF x.is_json THEN Returns(x.body)
    ELSE IF IsInstance(x.exc_type, "ValueError")
    THEN Returns(ErrorDict("Invalid JSON response:\n" \o x.text))
    ELSE IF IsInstance(x.exc_type, "Exception")
    THEN Returns(ErrorDict(x.exc_type \o ": " \o x.text))
    ELSE Raises(x.exc_type)

\* utilsfe.call_backend: the value the caller gets
call_backend(x) == try_call_backend(x).value

\* app.call_azure_function, lines 28-53
try_call_azure_function(x) ==
    LET e == post_exception(x)
    IN IF e # ""
       THEN IF IsInstance(e, "RequestException")
            THEN Returns(ErrorDict("Azure Function not working: " \o x.text))
            ELSE IF IsInstance(e, "Exception")
            THEN Returns(ErrorDict("Unexpected error: " \o x.text))
            ELSE Raises(e)
       ELSE IF x.status = 200 THEN Returns(x.body)
       ELSE IF x.status = 404
       THEN Returns(ErrorDict("No data found for the specified company"))
       ELSE IF x.status = 401 THEN Returns(ErrorDict("Invalid credentials"))
       ELSE Returns(ErrorDict("Azure Function error: " \o ToString(x.status)))

\* app.call_azure_function: the value the caller gets
call_azure_function(x) == try_call_azure_function(x).value

(***************************************************************************)
(* Session state.  st.session_state is a function from the keys present to *)
(* their values; None is a value with none = TRUE.                         *)
(***************************************************************************)
NoneDict == [v |-> <<>>, none |-> TRUE]
SomeDict(d) == [v |-> d, none |-> FALSE]
NoneFrame == [v |-> EmptyFrame, none |-> TRUE]
SomeFrame(df) == [v |-> df, none |-> FALSE]

Put(ss, key, value) ==
    [k \in DOMAIN ss \cup {key} |-> IF k = key THEN value ELSE ss[k]]

\* lines 237-247 of app.py: the keys every script run initializes
init_session_state(ss) ==
    LET s1 == IF "logged_in" \in DOMAIN ss THEN ss ELSE Put(ss, "logged_in", FALSE)
        s2 == IF "clustering_result" \in DOMAIN s1 THEN s1
              ELSE Put(s1, "clustering_result", NoneDict)
        s3 == IF "clustered_df_display" \in DOMAIN s2 THEN s2
              ELSE Put(s2, "clustered_df_display", NoneFrame)
    IN IF "heatmap_data_display" \in DOMAIN s3 THEN s3
       ELSE Put(s3, "heatmap_data_display", NoneFrame)

\* the session state of a browser session that has run no script yet
EmptySession == [k \in {} |-> FALSE]

VARIABLES
    build,            \* the library build of this deployment
    session_state,    \* st.session_state
    widgets,          \* the buttons the last script run rendered
    screen,           \* the page / clustering-tab branch the last run rendered
    rerun_pending,    \* st.rerun() was called: the next run has no widget event
    fault,            \* the exception that ended the last script run, "" if none
    raw_shown,        \* the value the last run passed to st.json in the clustering tab
    error_shown,      \* the message the last run passed to st.error, "" if none
    backend_result,   \* the local result of call_backend (line 179) in the last run, else None
    failure,          \* how the clustering request of the last run failed, if it did
    continent,        \* what the continent tab showed in the last run
    customers,        \* the customer table given to customer_continent_graph
    cdata,            \* the table customer_continent_graph returned, None before
    wrapper_call,     \* the last direct call of a backend wrapper and how it ended
    clicked,          \* the button whose click started the last script run, "" if none
    requests,         \* the backend requests the last script run sent, in order
    potential_customers_df,  \* the customer records given to the details view
    details,          \* what the customer details view rendered, NoDetails before
    utilsfe_country_to_continent,  \* the module-level dict of utilsfe.py, as it is now
    called_again,     \* customer_continent_graph was called more than once on the table
    logged_out_of,    \* the clustering-tab view the last Logout ended, until the
                      \* run after the next login; "" otherwise
    leads_result,     \* the reply of the leads service given to the results view
    company_df,       \* the company table given to the results view
    lookup            \* the customer ids the results view matched and fetched

vars == <<build, session_state, widgets, screen, rerun_pending, fault, raw_shown,
          error_shown, backend_result, failure, continent, customers, cdata,
          wrapper_call, clicked, requests,
          potential_customers_df,
          details,
          utilsfe_country_to_continent,
          called_again,
          logged_out_of,
          leads_result,
          company_df,
          lookup>>

(***************************************************************************)
(* One script run.  Streamlit runs app.py from the top for every widget    *)
(* event and for every st.rerun(); a run is modelled by the outcome record *)
(* it builds up: the session state it leaves, what it rendered, and        *)
(* whether it ended in st.rerun() or in an uncaught exception.             *)
(***************************************************************************)
\* the Continent Analysis tab of a run: what it showed and, when the button
\* was clicked and the backend answered, the answer given to the renderer
NoContinent ==
    [exc |-> "", status |-> "none", message |-> "", table |-> EmptyFrame,
     total_customers |-> 0, total_revenue |-> 0, continent_data |-> NoneDict,
     avg_revenue_per_customer |-> [num |-> 0, den |-> 1]]

StartRunOn(ss0) ==
    [ss |-> init_session_state(ss0), widgets |-> {}, screen |-> "none", fault |-> "", failure |-> "none", continent |-> NoContinent, requests |-> <<>>, rerun |-> FALSE, raw |-> NoneDict, error |-> "", backend |-> NoneDict, click |-> ""]

StartRun == StartRunOn(session_state)

Stopped(o) == o.rerun \/ o.fault # ""

\* str.strip() on the identifiers of the model
Strip(ident) == IF ident = " " THEN "" ELSE ident

\* the text st.error shows for result['error']
ErrorText(result) == Get(result, "error").msg

\* app.login_page, lines 62-102
login_page(o, click, ident, x) ==
    LET o1 == [o EXCEPT !.widgets = {"Login"}, !.screen = "login"]
    IN IF click # "Login" THEN o1
       ELSE IF Strip(ident) = ""
       THEN [o1 EXCEPT !.error = "Please enter a company identifier"]
       ELSE LET result == call_azure_function(x)
                o0 == [o1 EXCEPT !.requests = Append(@, "login")]
            IN IF Has(result, "error") THEN [o0 EXCEPT !.error = ErrorText(result)]
               ELSE LET s1 == Put(Put(o1.ss, "logged_in", TRUE),
                                  "company_identifier", Strip(ident))
                    IN IF ~Has(result, "data")
                       THEN [o0 EXCEPT !.ss = s1, !.fault = "KeyError"]
                       ELSE LET s2 == Put(s1, "company_data", Get(result, "data"))
                            IN IF ~Has(result, "total_records")
                               THEN [o0 EXCEPT !.ss = s2, !.fault = "KeyError"]
                               ELSE [o0 EXCEPT
                                     !.ss = Put(Put(Put(Put(s2,
                                            "total_records", Get(result, "total_records")),
                                            "clustering_result", NoneDict),
                                            "clustered_df_display", NoneFrame),
                                            "heatmap_data_display", NoneFrame),
                                     !.rerun = TRUE]

\* a variant of the message below that reuses the format call_backend gives
\* to a non-200 response
http_style_error_message(exc) == "HTTP 500: " \o exc

\* the message stored at line 209 of app.py for the exception exc
processing_error_message(exc) == "Client-side processing error: " \o exc

\* a variant of the except block below that stores the error and leaves the
\* two tables as the try block left them
processing_failed_keeps_tables(o, ss, result, exc) ==
    [o EXCEPT !.error = "Error processing clustering results: " \o exc,
              !.raw = SomeDict(result),
              !.ss = Put(ss, "clustering_result",
                         SomeDict(ErrorDict(processing_error_message(exc)))),
              !.failure = "processing",
              !.rerun = TRUE]

\* a variant of the except block below that sets heatmap_data_display to
\* None and leaves clustered_df_display as the try block left it
processing_failed_clears_heatmap(o, ss, result, exc) ==
    [o EXCEPT !.error = "Error processing clustering results: " \o exc,
              !.raw = SomeDict(result),
              !.ss = Put(Put(ss,
                     "clustering_result", SomeDict(ErrorDict(processing_error_message(exc)))),
                     "heatmap_data_display", NoneFrame),
              !.failure = "processing",
              !.rerun = TRUE]

\* lines 204-212 of app.py: the except block of the normalization
processing_failed(o, ss, result, exc) ==
    [o EXCEPT !.error = "Error processing clustering results: " \o exc,
              !.raw = SomeDict(result),
              !.ss = Put(Put(Put(ss,
                     "clustering_result", SomeDict(ErrorDict(processing_error_message(exc)))),
                     "clustered_df_display", NoneFrame),
                     "heatmap_data_display", NoneFrame),
              !.failure = "processing",
              !.rerun = TRUE]

\* lines 169-212 of app.py: the handler of the Run Clustering button
run_clustering(o, x) ==
    LET s1 == Put(Put(Put(o.ss, "clustering_result", NoneDict),
                      "clustered_df_display", NoneFrame),
                  "heatmap_data_display", NoneFrame)
        result == call_backend(x)
        s2 == Put(s1, "clustering_result", SomeDict(result))
        o2 == [o EXCEPT !.ss = s2, !.backend = SomeDict(result),
                        !.requests = Append(@, "cluster")]
    IN IF Has(result, "error")
       THEN [o2 EXCEPT !.error = "Error: " \o ErrorText(result),
                       !.failure = IF x.outcome = "response" /\ x.status = 200 /\ x.is_json
                                   THEN "backend" ELSE "transport"]
       ELSE LET made == clustered_df_of(result)
            IN IF made.raised THEN processing_failed(o2, s2, result, made.exc)
               ELSE LET s3 == Put(s2, "clustered_df_display", SomeFrame(made.df))
                        heatmap_data == heatmap_data_of(made.df, build)
                    IN IF heatmap_data.raised
                       THEN processing_failed(o2, s3, result, heatmap_data.exc)
                       ELSE [o2 EXCEPT
                             !.ss = Put(s3, "heatmap_data_display",
                                        SomeFrame(heatmap_data.df)),
                             !.failure = "none",
                             !.rerun = TRUE]

\* sns.heatmap(heatmap_data, annot=True, fmt='d', ...) formats every cell as
\* an integer and raises for one that is not
heatmap_plottable(df) ==
    \A i \in 1..Len(df.data) : \A j \in 1..Len(df.columns) : df.data[i][j].k = "int"

\* a variant of the table below that keeps the rows in the order of
\* clustered_df
heatmap_data_unsorted(clustered_df) ==
    LET indexed == set_index(clustered_df, "Country")
    IN IF indexed.raised THEN indexed ELSE select(indexed.df, SegmentLabels)

\* ui_components.create_and_display_heatmap, lines 31-33: the table the view
\* computes from clustered_df, with the library build of the session
heatmap_data_in_view(clustered_df) == heatmap_data_of(clustered_df, build)

\* ui_components.create_and_display_heatmap: the table, or the exception
create_and_display_heatmap(clustered_df) ==
    LET heatmap_data == heatmap_data_in_view(clustered_df)
    IN IF heatmap_data.raised THEN heatmap_data
       ELSE IF ~heatmap_plottable(heatmap_data.df) THEN Raise("ValueError")
       ELSE heatmap_data

\* the truth value Python gives a session value holding None or a dict
Truthy(value) == ~value.none /\ Len(value.v) > 0

\* the branch of the clustering tab a run takes, lines 137 / 155 / 164
clustering_branch(ss) ==
    IF ~ss["clustered_df_display"].none /\ ~ss["heatmap_data_display"].none
    THEN "results"
    ELSE IF Truthy(ss["clustering_result"]) /\ Has(ss["clustering_result"].v, "error")
    THEN "error"
    ELSE "initial"

\* a variant of the tab below whose error view sends the request again by
\* itself instead of waiting for a click
clustering_tab_with_retry(o, click, x) ==
    LET branch == clustering_branch(o.ss)
        o1 == [o EXCEPT !.screen = branch]
    IN IF branch = "results"
       THEN IF create_and_display_heatmap(o.ss["clustered_df_display"].v).raised
            THEN [o1 EXCEPT !.fault =
                     create_and_display_heatmap(o.ss["clustered_df_display"].v).exc]
            ELSE LET o2 == [o1 EXCEPT !.widgets = @ \cup {"Re-run Clustering"}]
                 IN IF click = "Re-run Clustering"
                    THEN [o2 EXCEPT
                          !.ss = Put(Put(Put(o.ss, "clustering_result", NoneDict),
                                         "clustered_df_display", NoneFrame),
                                     "heatmap_data_display", NoneFrame),
                          !.rerun = TRUE]
                    ELSE o2
       ELSE IF branch = "error"
       THEN run_clustering([o1 EXCEPT !.widgets = @ \cup {"Try Clustering Again"}], x)
       ELSE LET o2 == [o1 EXCEPT !.widgets = @ \cup {"Run Clustering"}]
            IN IF click = "Run Clustering" THEN run_clustering(o2, x) ELSE o2

\* a variant of the tab below whose Try Clustering Again button reruns the
\* script without clearing clustering_result
clustering_tab_keeps_error(o, click, x) ==
    LET branch == clustering_branch(o.ss)
        o1 == [o EXCEPT !.screen = branch]
    IN IF branch = "results"
       THEN IF create_and_display_heatmap(o.ss["clustered_df_display"].v).raised
            THEN [o1 EXCEPT !.fault =
                     create_and_display_heatmap(o.ss["clustered_df_display"].v).exc]
            ELSE LET o2 == [o1 EXCEPT !.widgets = @ \cup {"Re-run Clustering"}]
                 IN IF click = "Re-run Clustering"
                    THEN [o2 EXCEPT
                          !.ss = Put(Put(Put(o.ss, "clustering_result", NoneDict),
                                         "clustered_df_display", NoneFrame),
                                     "heatmap_data_display", NoneFrame),
                          !.rerun = TRUE]
                    ELSE o2
       ELSE IF branch = "error"
       THEN LET o2 == [o1 EXCEPT
                       !.widgets = @ \cup {"Try Clustering Again"},
                       !.error = "Clustering failed. Please check the 'Raw Results' below for details.",
                       !.raw = o.ss["clustering_result"]]
            IN IF click = "Try Clustering Again" THEN [o2 EXCEPT !.rerun = TRUE] ELSE o2
       ELSE LET o2 == [o1 EXCEPT !.widgets = @ \cup {"Run Clustering"}]
            IN IF click = "Run Clustering" THEN run_clustering(o2, x) ELSE o2

\* a variant of the tab below whose Re-run Clustering button sets the two
\* tables to None and leaves clustering_result
clustering_tab_rerun_keeps_result(o, click, x) ==
    LET branch == clustering_branch(o.ss)
        o1 == [o EXCEPT !.screen = branch]
    IN IF branch = "results"
       THEN IF create_and_display_heatmap(o.ss["clustered_df_display"].v).raised
            THEN [o1 EXCEPT !.fault =
                     create_and_display_heatmap(o.ss["clustered_df_display"].v).exc]
            ELSE LET o2 == [o1 EXCEPT !.widgets = @ \cup {"Re-run Clustering"}]
                 IN IF click = "Re-run Clustering"
                    THEN [o2 EXCEPT
                          !.ss = Put(Put(o.ss, "clustered_df_display", NoneFrame),
                                     "heatmap_data_display", NoneFrame),
                          !.rerun = TRUE]
                    ELSE o2
       ELSE IF branch = "error"
       THEN LET o2 == [o1 EXCEPT
                       !.widgets = @ \cup {"Try Clustering Again"},
                       !.error = "Clustering failed. Please check the 'Raw Results' below for details.",
                       !.raw = o.ss["clustering_result"]]
            IN IF click = "Try Clustering Again"
               THEN [o2 EXCEPT !.ss = Put(o.ss, "clustering_result", NoneDict),
                               !.rerun = TRUE]
               ELSE o2
       ELSE LET o2 == [o1 EXCEPT !.widgets = @ \cup {"Run Clustering"}]
            IN IF click = "Run Clustering" THEN run_clustering(o2, x) ELSE o2

\* app.main_app, lines 135-212: the Clustering Results tab
clustering_tab(o, click, x) ==
    LET branch == clustering_branch(o.ss)
        o1 == [o EXCEPT !.screen = branch]
    IN IF branch = "results"
       THEN IF create_and_display_heatmap(o.ss["clustered_df_display"].v).raised
            THEN [o1 EXCEPT !.fault =
                     create_and_display_heatmap(o.ss["clustered_df_display"].v).exc]
            ELSE LET o2 == [o1 EXCEPT !.widgets = @ \cup {"Re-run Clustering"}]
                 IN IF click = "Re-run Clustering"
                    THEN [o2 EXCEPT
                          !.ss = Put(Put(Put(o.ss, "clustering_result", NoneDict),
                                         "clustered_df_display", NoneFrame),
                                     "heatmap_data_display", NoneFrame),
                          !.rerun = TRUE]
                    ELSE o2
       ELSE IF branch = "error"
       THEN LET o2 == [o1 EXCEPT
                       !.widgets = @ \cup {"Try Clustering Again"},
                       !.error = "Clustering failed. Please check the 'Raw Results' below for details.",
                       !.raw = o.ss["clustering_result"]]
            IN IF click = "Try Clustering Again"
               THEN [o2 EXCEPT !.ss = Put(o.ss, "clustering_result", NoneDict),
                               !.rerun = TRUE]
               ELSE o2
       ELSE LET o2 == [o1 EXCEPT !.widgets = @ \cup {"Run Clustering"}]
            IN IF click = "Run Clustering" THEN run_clustering(o2, x) ELSE o2

\* utilsfe.call_continent_analysis_backend, lines 102-132
try_call_continent_analysis_backend(x) ==
    LET e == post_exception(x)
    IN IF e # ""
       THEN IF IsInstance(e, "Timeout")
            THEN Returns(ErrorDict("Backend request timed out. Please try again."))
            ELSE IF IsInstance(e, "ConnectionError")
            THEN Returns(ErrorDict(
                     "Could not connect to backend server. Please check if the server is running.  "
                     \o x.text))
            ELSE IF IsInstance(e, "RequestException")
            THEN Returns(ErrorDict("Request failed: " \o x.text))
            ELSE IF IsInstance(e, "Exception")
            THEN Returns(ErrorDict("Unexpected error: " \o x.text))
            ELSE Raises(e)
       ELSE IF x.status = 200 THEN Returns(x.body)
       ELSE Returns(ErrorDict("Backend request failed with status " \o ToString(x.status)
                              \o ": " \o x.text))

\* utilsfe.call_continent_analysis_backend: the value the caller gets
call_continent_analysis_backend(x) == try_call_continent_analysis_backend(x).value

\* a variant of the wrapper below without its last clause, except Exception
try_call_without_catch_all(x) ==
    LET e == post_exception(x)
    IN IF e # ""
       THEN IF IsInstance(e, "RequestException")
            THEN Returns(ErrorDict("Backend API request failed: " \o x.text))
            ELSE Raises(e)
       ELSE IF x.status = 200 THEN Returns(x.body)
       ELSE Returns(ErrorDict("Backend API error: " \o ToString(x.status)
                              \o " - " \o x.text))

\* utilsfe.call_potential_customers_backend, lines 139-162
try_call_potential_customers_backend(x) ==
    LET e == post_exception(x)
    IN IF e # ""
       THEN IF IsInstance(e, "RequestException")
            THEN Returns(ErrorDict("Backend API request failed: " \o x.text))
            ELSE IF IsInstance(e, "Exception")
            THEN Returns(ErrorDict("Unexpected error: " \o x.text))
            ELSE Raises(e)
       ELSE IF x.status = 200 THEN Returns(x.body)
       ELSE Returns(ErrorDict("Backend API error: " \o ToString(x.status)
                              \o " - " \o x.text))

\* utilsfe.fetch_customer_details_from_blob, lines 166-189: the same
\* handling as call_potential_customers_backend
try_fetch_customer_details_from_blob(x) ==
    LET e == post_exception(x)
    IN IF e # ""
       THEN IF IsInstance(e, "RequestException")
            THEN Returns(ErrorDict("Backend API request failed: " \o x.text))
            ELSE IF IsInstance(e, "Exception")
            THEN Returns(ErrorDict("Unexpected error: " \o x.text))
            ELSE Raises(e)
       ELSE IF x.status = 200 THEN Returns(x.body)
       ELSE Returns(ErrorDict("Backend API error: " \o ToString(x.status)
                              \o " - " \o x.text))

\* the exception of metrics['customer_count'] / metrics['total_revenue'] for
\* one entry of the response, "" if there is none (lines 211-215)
entry_exception(metrics) ==
    IF metrics.t # "map" THEN "TypeError"
    ELSE IF ~Has(metrics.m, "customer_count") THEN "KeyError"
    ELSE IF ~Has(metrics.m, "total_revenue") THEN "KeyError"
    ELSE ""

ContinentColumns == <<"Continent", "Customer_Count", "Total_Revenue">>

\* lines 209-217: data_list and pd.DataFrame(data_list); a DataFrame of an
\* empty list has no columns
data_list_frame(continent_data) ==
    IF Len(continent_data) = 0 THEN EmptyFrame
    ELSE Frame(RangeIndex(Len(continent_data)), ContinentColumns,
               [i \in 1..Len(continent_data) |->
                   <<StrCell(continent_data[i][1]),
                     Get(continent_data[i][2].m, "customer_count"),
                     Get(continent_data[i][2].m, "total_revenue")>>])

\* lines 208-218 of ui_components.py: df_continent, or the exception
df_continent_of(continent_data, ties) ==
    IF \E i \in 1..Len(continent_data) : entry_exception(continent_data[i][2]) # ""
    THEN LET first == CHOOSE i \in 1..Len(continent_data) :
                          /\ entry_exception(continent_data[i][2]) # ""
                          /\ \A j \in 1..(i - 1) : entry_exception(continent_data[j][2]) = ""
         IN Raise(entry_exception(continent_data[first][2]))
    ELSE sort_values(data_list_frame(continent_data), "Total_Revenue", ties)

ColumnSum(df, name) == SumSeq([i \in 1..Len(df.data) |-> Column(df, name)[i].n])

\* the quotient num / den of Python's true division, kept as a fraction
Quotient(num, den) == [num |-> num, den |-> den]

\* line 261 of ui_components.py:
\* total_revenue / total_customers if total_customers > 0 else 0
avg_revenue_per_customer(total_revenue, total_customers) ==
    IF total_customers > 0 THEN Quotient(total_revenue, total_customers)
    ELSE Quotient(0, 1)

\* ui_components.render_backend_continent_analysis: what the tab shows, or
\* the exception that leaves the function
render_backend_continent_analysis(continent_data) ==
    LET df_continent == df_continent_of(continent_data, build.ties)
    IN IF df_continent.raised
       THEN [NoContinent EXCEPT !.status = "fault", !.exc = df_continent.exc]
       ELSE [NoContinent EXCEPT
             !.status = "rendered",
             !.table = df_continent.df,
             !.total_customers = ColumnSum(df_continent.df, "Customer_Count"),
             !.total_revenue = ColumnSum(df_continent.df, "Total_Revenue"),
             !.avg_revenue_per_customer =
                 avg_revenue_per_customer(ColumnSum(df_continent.df, "Total_Revenue"),
                                          ColumnSum(df_continent.df, "Customer_Count"))]

\* app.main_app, lines 214-235: the Continent Analysis tab
continent_tab(o, click, cx) ==
    IF Stopped(o) THEN o
    ELSE LET o1 == [o EXCEPT !.widgets = @ \cup {"Analyze Continents"}]
         IN IF click # "Analyze Continents" THEN o1
            ELSE LET result == call_continent_analysis_backend(cx)
                     o2 == [o1 EXCEPT !.requests = Append(@, "continent-analysis")]
                 IN IF Has(result, "error")
                    THEN [o2 EXCEPT !.continent =
                             [NoContinent EXCEPT !.status = "error",
                                                 !.message = "Error: " \o ErrorText(result)]]
                    ELSE LET shown == render_backend_continent_analysis(result)
                         IN [o2 EXCEPT
                             !.continent = [shown EXCEPT !.continent_data = SomeDict(result)],
                             !.fault = shown.exc]

\* a variant of main_app below whose Logout button only sets logged_in to
\* False
main_app_logout_keeps_keys(o, click, x, cx) ==
    IF ~({"company_identifier", "total_records"} \subseteq DOMAIN o.ss)
    THEN [o EXCEPT !.screen = "main", !.fault = "AttributeError"]
    ELSE LET o1 == [o EXCEPT !.screen = "main", !.widgets = {"Logout"}]
         IN IF click = "Logout"
            THEN [o1 EXCEPT !.ss = Put(o.ss, "logged_in", FALSE), !.rerun = TRUE]
            ELSE IF "company_data" \notin DOMAIN o.ss
            THEN [o1 EXCEPT !.fault = "AttributeError"]
            ELSE continent_tab(clustering_tab(o1, click, x), click, cx)

\* app.main_app, lines 104-235
main_app(o, click, x, cx) ==
    IF ~({"company_identifier", "total_records"} \subseteq DOMAIN o.ss)
    THEN [o EXCEPT !.screen = "main", !.fault = "AttributeError"]
    ELSE LET o1 == [o EXCEPT !.screen = "main", !.widgets = {"Logout"}]
         IN IF click = "Logout"
            THEN [o1 EXCEPT !.ss = EmptySession, !.rerun = TRUE]
            ELSE IF "company_data" \notin DOMAIN o.ss
            THEN [o1 EXCEPT !.fault = "AttributeError"]
            ELSE continent_tab(clustering_tab(o1, click, x), click, cx)

\* app.py, lines 237-253: one run of the script on the session state ss0 for
\* the widget event click ("" for a run without event), with the inputs the
\* run consumes
script_on(ss0, click, ident, ax, x, cx) ==
    LET o == [StartRunOn(ss0) EXCEPT !.click = click]
    IN IF o.ss["logged_in"] THEN main_app(o, click, x, cx)
       ELSE login_page(o, click, ident, ax)

\* the run of the script on the session state of the session
script(click, ident, ax, x, cx) == script_on(session_state, click, ident, ax, x, cx)

Shows(o) ==
    /\ session_state' = o.ss
    /\ widgets' = o.widgets
    /\ screen' = o.screen
    /\ rerun_pending' = o.rerun
    /\ fault' = o.fault
    /\ raw_shown' = o.raw
    /\ error_shown' = o.error
    /\ backend_result' = o.backend
    /\ failure' = o.failure
    /\ continent' = o.continent
    /\ clicked' = o.click
    /\ requests' = o.requests
    /\ logged_out_of' = IF o.click = "Logout" /\ o.rerun
                        THEN clustering_branch(init_session_state(session_state))
                        ELSE IF o.screen = "login" \/ o.click = "Login"
                        THEN logged_out_of
                        ELSE ""
    /\ UNCHANGED <<build, customers, cdata, wrapper_call, potential_customers_df,
                   details, utilsfe_country_to_continent, called_again,
                   leads_result,
                   company_df,
                   lookup>>

(***************************************************************************)
(* The local continent aggregation of utilsfe.py.                          *)
(***************************************************************************)
continent_to_countries ==
    << <<"All", <<>> >>,
       <<"Europe", <<"France", "Spain", "Italy", "Germany", "Sweden", "Belgium",
                     "UK", "Norway", "Finland", "Switzerland", "Austria",
                     "Denmark", "Ireland", "Portugal", "Netherlands", "Poland">> >>,
       <<"Asia", <<"Singapore", "Japan">> >>,
       <<"Oceania", <<"Australia">> >>,
       <<"South America", <<"Brazil", "Venezuela", "Argentina">> >>,
       <<"North America", <<"USA", "Canada", "Mexico">> >> >>

\* the dict comprehension of lines 58-62: a later continent listing the
\* country would overwrite an earlier one
country_to_continent ==
    LET listed == UNION {Range(continent_to_countries[i][2]) :
                         i \in 1..Len(continent_to_countries)}
    IN [country \in listed |->
           continent_to_countries[
               CHOOSE i \in 1..Len(continent_to_countries) :
                   /\ Contains(continent_to_countries[i][2], country)
                   /\ \A j \in (i + 1)..Len(continent_to_countries) :
                          ~Contains(continent_to_countries[j][2], country)][1]]

\* a variant of drop_duplicates below that drops nothing
keep_every_row(rows) == [i \in 1..Len(rows) |-> [row |-> rows[i], at |-> i]]

\* df.drop_duplicates(subset='CustomerID', keep='last')
drop_duplicates_keep_last(rows) ==
    SelectSeq([i \in 1..Len(rows) |-> [row |-> rows[i], at |-> i]],
              LAMBDA e : \A j \in (e.at + 1)..Len(rows) :
                             rows[j].CustomerID # e.row.CustomerID)

\* df.drop_duplicates(subset='CustomerID'): the first row of every id
drop_duplicates(rows) ==
    SelectSeq([i \in 1..Len(rows) |-> [row |-> rows[i], at |-> i]],
              LAMBDA e : \A j \in 1..(e.at - 1) : rows[j].CustomerID # e.row.CustomerID)

\* series.value_counts(): the count of every value that is not NaN, as a
\* dict (the loop below is indifferent to its order)
value_counts(cells) ==
    LET present == {cells[i].s : i \in {j \in 1..Len(cells) : cells[j].k = "str"}}
        first(v) == CHOOSE i \in 1..Len(cells) :
                        /\ cells[i] = StrCell(v)
                        /\ \A j \in 1..(i - 1) : cells[j] # StrCell(v)
        order == SelectSeq([i \in 1..Len(cells) |-> i],
                           LAMBDA i : cells[i].k = "str" /\ first(cells[i].s) = i)
    IN [p \in 1..Len(order) |->
           <<cells[order[p]].s,
             Cardinality({j \in 1..Len(cells) : cells[j] = cells[order[p]]})>>]

\* a variant of the lookup below that stores the default in the dict:
\* country_to_continent.setdefault(country, 'Other')
dict_setdefault(dict, key, default) ==
    IF key \in DOMAIN dict THEN [value |-> dict[key], dict |-> dict]
    ELSE [value |-> default,
          dict |-> [k \in DOMAIN dict \cup {key} |->
                       IF k \in DOMAIN dict THEN dict[k] ELSE default]]

\* line 77, dict.get(key, default): the value of the call and the dict as
\* the call leaves it
dict_get(dict, key, default) ==
    [value |-> IF key \in DOMAIN dict THEN dict[key] ELSE default, dict |-> dict]

\* a variant of the loop body below without the membership test of line 78:
\* continent_count[continent] = continent_count.get(continent, 0) + count
count_country_unguarded(continent_count, cont, count) ==
    IF Has(continent_count, cont)
    THEN [i \in 1..Len(continent_count) |->
             IF continent_count[i][1] = cont
             THEN <<cont, continent_count[i][2] + count>>
             ELSE continent_count[i]]
    ELSE Append(continent_count, <<cont, count>>)

\* lines 78-79: the continent found for a country is counted
count_country(continent_count, cont, count) ==
    IF Has(continent_count, cont)
    THEN [i \in 1..Len(continent_count) |->
             IF continent_count[i][1] = cont
             THEN <<cont, continent_count[i][2] + count>>
             ELSE continent_count[i]]
    ELSE continent_count

\* lines 76-79: the loop over country_counts, with the dict it reads
RECURSIVE count_countries(_, _, _)
count_countries(continent_count, dict, country_counts) ==
    IF country_counts = <<>> THEN [dict |-> dict, continent_count |-> continent_count]
    ELSE LET found == dict_get(dict, Head(country_counts)[1], "Other")
         IN count_countries(count_country(continent_count, found.value,
                                          Head(country_counts)[2]),
                            found.dict, Tail(country_counts))

\* what df.drop_duplicates(subset='CustomerID', inplace=...) leaves in the
\* table it is called on
drop_duplicates_self(rows, inplace) ==
    IF inplace THEN [i \in 1..Len(drop_duplicates(rows)) |-> drop_duplicates(rows)[i].row]
    ELSE rows

\* a call of utilsfe.customer_continent_graph: the table it returns, and the
\* caller's table and the module-level dict as the call leaves them.  Line
\* 67 calls drop_duplicates without inplace and line 80 binds the local name
\* df to a new table, which line 81 changes in place.
call_customer_continent_graph(rows, dict) ==
    LET kept == drop_duplicates(rows)
        country_counts == value_counts([i \in 1..Len(kept) |-> kept[i].row.Country])
        counted == count_countries(
            << <<"Europe", 0>>, <<"Asia", 0>>, <<"Oceania", 0>>,
               <<"South America", 0>>, <<"North America", 0>> >>, dict, country_counts)
        continent_count == counted.continent_count
    IN [df |-> drop_duplicates_self(rows, FALSE),
        dict |-> counted.dict,
        returned |->
            Frame(RangeIndex(Len(continent_count)), <<"Continent", "Customer_Count">>,
                  [i \in 1..Len(continent_count) |->
                      <<StrCell(continent_count[i][1]), IntCell(continent_count[i][2])>>])]

\* utilsfe.customer_continent_graph: the table returned
customer_continent_graph(rows) == call_customer_continent_graph(rows, country_to_continent).returned

(***************************************************************************)
(* Inputs.                                                                 *)
(***************************************************************************)
Countries == {"France", "Spain", "Japan"}
SegmentRow(a, b, c) ==
    JMap(<< <<"0", IntCell(a)>>, <<"1", IntCell(b)>>, <<"2", IntCell(c)>> >>)

\* the inner values of a valid clustering response
ValidInner ==
    {SegmentRow(r[1], r[2], r[3]) :
        r \in {q \in (0..MaxCount) \X (0..MaxCount) \X (0..MaxCount) :
                   q[1] + q[2] + q[3] <= MaxCount}}
\* a valid inner value with one more segment
ExtraInner ==
    {JMap(<< <<"0", IntCell(1)>>, <<"1", IntCell(0)>>, <<"2", IntCell(1)>>,
             <<"3", IntCell(1)>> >>)}
\* malformed inner values: not a mapping, a count that is a text, every
\* count a text, a segment missing
MalformedInner ==
    {JScalar(IntCell(5)),
     JMap(<< <<"0", StrCell("abc")>>, <<"1", IntCell(1)>>, <<"2", IntCell(1)>> >>),
     JMap(<< <<"0", StrCell("abc")>>, <<"1", StrCell("abc")>>, <<"2", StrCell("abc")>> >>),
     JMap(<< <<"0", IntCell(1)>>, <<"1", IntCell(1)>> >>)}

\* a 200 body that carries an "error" key of the backend's own
BackendErrorBody == ErrorDict("boom")

ValidClusterBodies(n) == DictsOver(Countries, ValidInner, n)
ClusterBodies(n) ==
    DictsOver(Countries, ValidInner \cup ExtraInner \cup MalformedInner, n)
    \cup {BackendErrorBody}

ContinentNames == {"Europe", "Asia", "Oceania"}
ContinentEntry(count, revenue) ==
    JMap(<< <<"customer_count", IntCell(count)>>, <<"total_revenue", IntCell(revenue)>> >>)
ValidEntries == {ContinentEntry(c, r) : c \in 0..MaxRevenue, r \in 0..MaxRevenue}
MalformedEntries ==
    {JMap(<< <<"customer_count", IntCell(1)>> >>),
     JMap(<< <<"total_revenue", IntCell(1)>> >>),
     JScalar(IntCell(5))}
ContinentBodies(n) ==
    DictsOver(ContinentNames, ValidEntries \cup MalformedEntries, n)
    \cup {BackendErrorBody}

Identifiers == {" ", "1"}
AzureBodies ==
    {<< <<"data", JScalar(IntCell(2))>>, <<"total_records", JScalar(IntCell(2))>> >>,
     << <<"total_records", JScalar(IntCell(2))>> >>,
     << <<"data", JScalar(IntCell(2))>> >>,
     BackendErrorBody}
AzureExchanges ==
    OkExchanges(AzureBodies)
    \cup {Exchange("response", "", c, FALSE, "boom", <<>>) : c \in {401, 404, 500}}
    \cup {Exchange("exception", "ConnectionError", 0, FALSE, "boom", <<>>)}

NoExchange == Exchange("none", "", 0, FALSE, "", <<>>)

\* no wrapper has been called
NoCall == [x |-> NoExchange, wrapper |-> "", ended |-> Returns(<<>>)]

\* the exchanges of a direct call of a wrapper: an exception of requests.post
\* (of requests or not), a status other than 200, a 200 body that is not
\* JSON, a 200 body that is
WrapperBodies ==
    {<<>>, BackendErrorBody, << <<"France", JScalar(IntCell(5))>> >>,
     << <<"Europe", ContinentEntry(1, 1)>> >>}
WrapperExchanges ==
    {Exchange("exception", e, 0, FALSE, t, <<>>) :
        e \in {"ConnectionError", "Timeout", "TooManyRedirects", "TypeError"}, t \in Texts}
    \cup {Exchange("response", "", c, FALSE, t, <<>>) :
             c \in {201, 204, 302, 401, 404, 500}, t \in Texts}
    \cup {Exchange("response", j, 200, FALSE, t, <<>>) : j \in JsonErrorTypes, t \in Texts}
    \cup OkExchanges(WrapperBodies)

LocalCountries == {"France", "Japan", "Australia", "Brazil", "USA", "Narnia"}
CustomerRows ==
    [CustomerID : 1..MaxCustomerID,
     Country : {StrCell(c) : c \in LocalCountries} \cup {NaN}]
CustomerTables == UNION {[1..m -> CustomerRows] : m \in 0..MaxTableRows}

(***************************************************************************)
(* The customer details of ui_components.render_potential_customers_results*)
(* (lines 364-507): the columns of the customer records are resolved to    *)
(* the six fields of the view, and the view is rendered from the resolved  *)
(* table with no filter selected.                                          *)
(***************************************************************************)
required_columns == <<"CustomerID", "FirstName", "LastName", "City", "Country", "Phone">>

alternatives ==
    << <<"CustomerID", <<"ID", "customer_id", "id">> >>,
       <<"FirstName", <<"first_name", "First_Name", "fname">> >>,
       <<"LastName", <<"last_name", "Last_Name", "lname">> >>,
       <<"City", <<"city">> >>,
       <<"Country", <<"country">> >>,
       <<"Phone", <<"phone", "Phone_Number", "PhoneNumber">> >> >>

\* None as the value of column_mapping[req_col]
NoColumn == "<None>"

\* a variant of the loop below that keeps the last alternative present
\* instead of leaving the loop at the first
RECURSIVE last_alternative(_, _)
last_alternative(alt_names, columns) ==
    IF alt_names = <<>> THEN NoColumn
    ELSE IF Contains(columns, alt_names[Len(alt_names)]) THEN alt_names[Len(alt_names)]
    ELSE last_alternative(SubSeq(alt_names, 1, Len(alt_names) - 1), columns)

\* lines 386-391: the loop over the alternatives of a field, left at the
\* first one present
RECURSIVE first_alternative(_, _)
first_alternative(alt_names, columns) ==
    IF alt_names = <<>> THEN NoColumn
    ELSE IF Contains(columns, Head(alt_names)) THEN Head(alt_names)
    ELSE first_alternative(Tail(alt_names), columns)

\* lines 372-394: the dict column_mapping
column_mapping_of(columns) ==
    [i \in 1..Len(required_columns) |->
        <<required_columns[i],
          IF Contains(columns, required_columns[i]) THEN required_columns[i]
          ELSE first_alternative(IF Has(alternatives, required_columns[i])
                                 THEN Get(alternatives, required_columns[i]) ELSE <<>>,
                                 columns)>>]

\* lines 397-400
display_columns_of(column_mapping) ==
    LET found == SelectSeq(column_mapping, LAMBDA e : e[2] # NoColumn)
    IN [i \in 1..Len(found) |-> found[i][2]]

\* line 407: {v: k for k, v in column_mapping.items() if v is not None}
rename_dict_of(column_mapping) ==
    LET found == SelectSeq(column_mapping, LAMBDA e : e[2] # NoColumn)
    IN [i \in 1..Len(found) |-> <<found[i][2], found[i][1]>>]

\* df.drop_duplicates(subset=names): the first row of every key
drop_duplicate_rows(df, names) ==
    LET key(i) == [j \in 1..Len(names) |-> df.data[i][IndexOf(df.columns, names[j])]]
        keep == SelectSeq([i \in 1..Len(df.data) |-> i],
                          LAMBDA i : \A j \in 1..(i - 1) : key(j) # key(i))
    IN Frame([i \in 1..Len(keep) |-> df.index[keep[i]]], df.columns,
             [i \in 1..Len(keep) |-> df.data[keep[i]]])

\* df.empty
Empty(df) == Len(df.data) = 0 \/ Len(df.columns) = 0

NoDetails ==
    [df |-> EmptyFrame, fault |-> "", column_mapping |-> <<>>, section |-> "", country_filter |-> FALSE, city_filter |-> FALSE, phone_button |-> "", phone_expander |-> FALSE]

\* lines 364-507
customer_details(df) ==
    IF Empty(df) THEN [NoDetails EXCEPT !.section = "nothing"]
    ELSE LET column_mapping == column_mapping_of(df.columns)
             display_columns == display_columns_of(column_mapping)
             o == [NoDetails EXCEPT !.column_mapping = column_mapping]
         IN IF display_columns = <<>>
            THEN [o EXCEPT !.section = "warning"]
            ELSE IF select(df, display_columns).raised
            THEN [o EXCEPT !.fault = select(df, display_columns).exc]
            ELSE LET renamed == rename(select(df, display_columns).df,
                                       rename_dict_of(column_mapping))
                     display_df ==
                         IF \E c \in {"CustomerID", "ID", "customer_id", "id"} :
                                Contains(renamed.columns, c)
                         THEN drop_duplicate_rows(renamed,
                                  <<first_alternative(<<"CustomerID", "ID", "customer_id", "id">>,
                                                      renamed.columns)>>)
                         ELSE drop_duplicate_rows(renamed, renamed.columns)
                     has_phone == Contains(display_df.columns, "Phone")
                 IN [o EXCEPT
                     !.section = "table",
                     !.df = display_df,
                     !.country_filter = Contains(display_df.columns, "Country"),
                     !.city_filter = Contains(display_df.columns, "City"),
                     !.phone_button =
                         IF ~has_phone THEN "Phone Numbers Not Available (disabled)"
                         ELSE IF \E i \in 1..Len(display_df.data) :
                                     Column(display_df, "Phone")[i] # NaN
                         THEN "Download Phone Numbers"
                         ELSE "No Phone Numbers (disabled)",
                     !.phone_expander = has_phone]

\* the column labels a table of customer records may carry: the names the
\* view knows and one it does not
ColumnUniverse ==
    <<"CustomerID", "ID", "customer_id", "id",
      "FirstName", "first_name", "First_Name", "fname",
      "LastName", "last_name", "Last_Name", "lname",
      "City", "city", "Country", "country",
      "Phone", "phone", "Phone_Number", "PhoneNumber", "Email">>

\* at most MaxColumns of the labels, in the order above or in the opposite
\* order
ColumnLists ==
    LET picks == {q \in UNION {[1..m -> 1..Len(ColumnUniverse)] : m \in 0..MaxColumns} :
                     \A i, j \in 1..Len(q) : i < j => q[i] < q[j]}
    IN {[i \in 1..Len(q) |-> ColumnUniverse[q[i]]] : q \in picks}
       \cup {[i \in 1..Len(q) |-> ColumnUniverse[q[Len(q) + 1 - i]]] : q \in picks}

DetailCells == {StrCell("x"), NaN}

\* the tables of customer records with these columns: no row, or one row
\* of cells
DetailTables(cols) ==
    {Frame(<<>>, cols, <<>>)}
    \cup {Frame(RangeIndex(1), cols, <<row>>) : row \in [1..Len(cols) -> DetailCells]}

(***************************************************************************)
(* ui_components.render_potential_customers_results, lines 269-360: the    *)
(* customer ids of the leads reply are looked up in the company table and  *)
(* the ids not found there are fetched from the blob store.                *)
(***************************************************************************)
\* int(float(id)) of a number or of a numeral
int_float(id) ==
    IF id.k = "str" THEN CHOOSE n \in 0..(MaxCustomerID + 1) : ToString(n) = id.s
    ELSE id.n

\* lines 276-283: the ids of every product, as a set of ints
all_customer_ids_of(result) ==
    UNION {{int_float(result[i][2].m[j]) : j \in 1..Len(result[i][2].m)} :
           i \in 1..Len(result)}

\* line 305
customer_id_columns == <<"CustomerID", "ID", "customer_id", "id">>

\* Series.isin of one cell: a number is found by its value (1.0 == 1), a
\* string or NaN is equal to no int
isin(cell, values) == cell.k \in {"int", "float"} /\ cell.n \in values

\* line 318: the rows of the mask, under their labels
company_customers_of(company, customer_id_col, all_customer_ids) ==
    LET keep == SelectSeq([i \in 1..Len(company.data) |-> i],
                          LAMBDA i : isin(company.data[i][IndexOf(company.columns,
                                                                  customer_id_col)],
                                          all_customer_ids))
    IN Frame([i \in 1..Len(keep) |-> company.index[keep[i]]], company.columns,
             [i \in 1..Len(keep) |-> company.data[keep[i]]])

\* line 324: set(column.unique()); 1 and 1.0 are one element of a Python set
found_ids_of(company_customers, customer_id_col) ==
    {cell.n : cell \in Range(Column(company_customers, customer_id_col))}

\* a variant of the difference below that keeps every id:
\* missing_customer_ids = list(all_customer_ids)
missing_customer_ids_all(all_customer_ids, found_ids) == all_customer_ids

\* line 325; the order of the list is the iteration order of the set
missing_customer_ids_of(all_customer_ids, found_ids) == all_customer_ids \ found_ids

\* pd.DataFrame(list of dicts): the keys in the order they first appear, a
\* missing key is NaN
RECURSIVE record_columns(_)
record_columns(records) ==
    IF records = <<>> THEN <<>>
    ELSE LET before == record_columns(SubSeq(records, 1, Len(records) - 1))
         IN before \o SelectSeq(Keys(records[Len(records)]),
                                LAMBDA key : ~Contains(before, key))

DataFrame_of_records(records) ==
    LET columns == record_columns(records)
    IN Frame(RangeIndex(Len(records)), columns,
             [i \in 1..Len(records) |->
                 [j \in 1..Len(columns) |->
                     IF Has(records[i], columns[j]) THEN Get(records[i], columns[j])
                     ELSE NaN]])

\* pd.concat([a, b], ignore_index=True)
concat(a, b) ==
    LET columns == a.columns \o SelectSeq(b.columns, LAMBDA c : ~Contains(a.columns, c))
        row(df, i) == [j \in 1..Len(columns) |->
                          IF Contains(df.columns, columns[j])
                          THEN df.data[i][IndexOf(df.columns, columns[j])]
                          ELSE NaN]
    IN Frame(RangeIndex(Len(a.data) + Len(b.data)), columns,
             [i \in 1..Len(a.data) |-> row(a, i)]
             \o [i \in 1..Len(b.data) |-> row(b, i)])

NoLookup ==
    [df |-> EmptyFrame, message |-> "", section |-> "", customer_id_col |-> NoColumn, all_customer_ids |-> {}, found_ids |-> {}, missing_customer_ids |-> {}, fetched |-> FALSE]

\* lines 271-360; blob_result is what fetch_customer_details_from_blob
\* returns when it is called
potential_customers_lookup(result, company, blob_result) ==
    IF Has(result, "error") THEN [NoLookup EXCEPT !.section = "error"]
    ELSE LET all_customer_ids == all_customer_ids_of(result)
             customer_id_col == first_alternative(customer_id_columns, company.columns)
             company_customers ==
                 IF customer_id_col # NoColumn
                 THEN company_customers_of(company, customer_id_col, all_customer_ids)
                 ELSE EmptyFrame
             found == customer_id_col # NoColumn /\ ~Empty(company_customers)
             found_ids == IF found THEN found_ids_of(company_customers, customer_id_col)
                          ELSE {}
             missing_customer_ids ==
                 IF found THEN missing_customer_ids_of(all_customer_ids, found_ids)
                 ELSE all_customer_ids
             o == [NoLookup EXCEPT !.section = "lookup",
                                   !.all_customer_ids = all_customer_ids,
                                   !.customer_id_col = customer_id_col,
                                   !.found_ids = found_ids,
                                   !.missing_customer_ids = missing_customer_ids,
                                   !.df = IF found THEN company_customers ELSE EmptyFrame]
         IN IF missing_customer_ids = {} THEN o
            ELSE LET fetched == [o EXCEPT !.fetched = TRUE]
                 IN IF Has(blob_result, "error")
                    THEN [fetched EXCEPT !.message = "error"]
                    ELSE IF Has(blob_result, "customers")
                            /\ Get(blob_result, "customers").m # <<>>
                    THEN LET blob_customers_df ==
                                 DataFrame_of_records(Get(blob_result, "customers").m)
                         IN [fetched EXCEPT
                                !.message = "success",
                                !.df = IF ~Empty(o.df) THEN concat(o.df, blob_customers_df)
                                       ELSE blob_customers_df]
                    ELSE [fetched EXCEPT !.message = "warning"]

\* the ids of one product in the leads reply: some of the ids 1, 2, ..., all
\* as ints, as floats or as numerals
LeadLists ==
    {<<>>} \cup
    UNION {{[i \in 1..Len(q) |-> IntCell(q[i])],
            [i \in 1..Len(q) |-> FloatCell(q[i])],
            [i \in 1..Len(q) |-> StrCell(ToString(q[i]))]} :
           q \in {r \in DistinctSeqs(1..MaxCustomerID, MaxCustomerID) :
                     r # <<>> /\ \A i, j \in 1..Len(r) : i < j => r[i] < r[j]}}

\* the replies of the leads service: an error, or the ids of no, one or two
\* products
LeadsResults ==
    {BackendErrorBody, <<>>}
    \cup {<< <<"Shoes", JList(a)>> >> : a \in LeadLists}
    \cup {<< <<"Shoes", JList(a)>>, <<"Hats", JList(b)>> >> : a, b \in LeadLists}

CompanyColumnLists == {<<"ID">>, <<"Name">>, <<"id", "CustomerID">>}
CompanyCells == {IntCell(1), FloatCell(2), StrCell("1")}

\* the company tables with these columns: the last column holds any of the
\* cells, a column before it the int 1
CompanyTables(cols) ==
    UNION {{Frame(RangeIndex(m), cols,
                  [i \in 1..m |-> [j \in 1..Len(cols) |->
                                      IF j = Len(cols) THEN q[i] ELSE IntCell(1)]]) :
            q \in [1..m -> CompanyCells]} : m \in 0..MaxCompanyRows}

\* what the blob store returns: an error, no customers key, no customer, or
\* the record of one customer
BlobResults ==
    {BackendErrorBody, <<>>,
     << <<"customers", JList(<<>>)>> >>,
     << <<"customers", JList(<< << <<"CustomerID", IntCell(2)>>,
                                   <<"Phone", StrCell("x")>> >> >>)>> >>}

(***************************************************************************)
(* Actions: one script run per widget event, and the run without event     *)
(* that a page load or st.rerun() starts.                                  *)
(***************************************************************************)
DefaultBuild == [ties |-> "original", numeric_fallback |-> FALSE]

\* a browser session opens the page: the first script run is due
Init ==
    /\ build \in Builds
    /\ session_state = EmptySession
    /\ widgets = {}
    /\ screen = "none"
    /\ rerun_pending = TRUE
    /\ fault = ""
    /\ raw_shown = NoneDict
    /\ error_shown = ""
    /\ backend_result = NoneDict
    /\ failure = "none"
    /\ continent = NoContinent
    /\ customers = <<>>
    /\ cdata = NoneFrame
    /\ wrapper_call = NoCall
    /\ clicked = ""
    /\ requests = <<>>
    /\ lookup = NoLookup
    /\ company_df = EmptyFrame
    /\ leads_result = <<>>
    /\ logged_out_of = ""
    /\ called_again = FALSE
    /\ utilsfe_country_to_continent = country_to_continent
    /\ details = NoDetails
    /\ potential_customers_df = EmptyFrame

\* the run of a page load or of st.rerun()
ScriptRun ==
    /\ rerun_pending
    /\ Shows(script("", "", NoExchange, NoExchange, NoExchange))

Clickable(button) == ~rerun_pending /\ button \in widgets

\* the Login form is submitted
Login(exchanges) ==
    /\ Clickable("Login")
    /\ \E ident \in Identifiers, ax \in exchanges :
           Shows(script("Login", ident, ax, NoExchange, NoExchange))

Logout ==
    /\ Clickable("Logout")
    /\ Shows(script("Logout", "", NoExchange, NoExchange, NoExchange))

RunClustering(exchanges) ==
    /\ Clickable("Run Clustering")
    /\ \E x \in exchanges :
           Shows(script("Run Clustering", "", NoExchange, x, NoExchange))

ReRunClustering ==
    /\ Clickable("Re-run Clustering")
    /\ Shows(script("Re-run Clustering", "", NoExchange, NoExchange, NoExchange))

TryClusteringAgain ==
    /\ Clickable("Try Clustering Again")
    /\ Shows(script("Try Clustering Again", "", NoExchange, NoExchange, NoExchange))

AnalyzeContinents(exchanges) ==
    /\ Clickable("Analyze Continents")
    /\ \E cx \in exchanges :
           Shows(script("Analyze Continents", "", NoExchange, NoExchange, cx))

\* the exchanges of the whole application: every failure, and the responses
\* of at most one entry
AppClusterExchanges == FailedExchanges \cup OkExchanges(ClusterBodies(1))
AppContinentExchanges == FailedExchanges \cup OkExchanges(ContinentBodies(1))

\* the whole application
Next ==
    \/ ScriptRun
    \/ Login(AzureExchanges)
    \/ Logout
    \/ RunClustering(AppClusterExchanges)
    \/ ReRunClustering
    \/ TryClusteringAgain
    \/ AnalyzeContinents(AppContinentExchanges)

Spec == Init /\ [][Next]_vars

\* a successful login
GoodLogin == OkExchanges({<< <<"data", JScalar(IntCell(2))>>,
                             <<"total_records", JScalar(IntCell(2))>> >>})

\* every clustering response of the model
NormalizeExchanges == OkExchanges(ClusterBodies(MaxRows))

\* the clustering tab, with every clustering response of the model
NextNormalize ==
    \/ ScriptRun
    \/ Login(GoodLogin)
    \/ RunClustering(NormalizeExchanges)
    \/ ReRunClustering
    \/ TryClusteringAgain

SpecNormalize == Init /\ [][NextNormalize]_vars

\* every continent response of the model
FlattenExchanges == OkExchanges(ContinentBodies(MaxEntries))

\* the continent tab, with every continent response of the model
NextFlatten ==
    \/ ScriptRun
    \/ Login(GoodLogin)
    \/ AnalyzeContinents(FlattenExchanges)

SpecFlatten == Init /\ [][NextFlatten]_vars

\* ui_components.render_user_chart: the local aggregation of a customer table
InitLocal ==
    /\ build = DefaultBuild
    /\ session_state = EmptySession
    /\ widgets = {}
    /\ screen = "none"
    /\ rerun_pending = FALSE
    /\ fault = ""
    /\ raw_shown = NoneDict
    /\ error_shown = ""
    /\ backend_result = NoneDict
    /\ failure = "none"
    /\ continent = NoContinent
    /\ customers \in CustomerTables
    /\ cdata = NoneFrame
    /\ wrapper_call = NoCall
    /\ clicked = ""
    /\ requests = <<>>
    /\ lookup = NoLookup
    /\ company_df = EmptyFrame
    /\ leads_result = <<>>
    /\ logged_out_of = ""
    /\ called_again = FALSE
    /\ utilsfe_country_to_continent = country_to_continent
    /\ details = NoDetails
    /\ potential_customers_df = EmptyFrame

render_user_chart ==
    /\ LET call == call_customer_continent_graph(customers, utilsfe_country_to_continent)
       IN /\ cdata' = SomeFrame(call.returned)
          /\ customers' = call.df
          /\ utilsfe_country_to_continent' = call.dict
    /\ called_again' = ~cdata.none
    /\ UNCHANGED <<build, session_state, widgets, screen, rerun_pending, fault,
                   raw_shown, error_shown, backend_result, failure, continent,
                   wrapper_call, clicked, requests, potential_customers_df, details,
                   logged_out_of,
                   leads_result,
                   company_df,
                   lookup>>

NextLocal == render_user_chart

SpecLocal == InitLocal /\ [][NextLocal]_vars

\* direct calls of the four backend wrappers of utilsfe.py, each with every
\* outcome of its HTTP exchange
InitWrappers ==
    /\ build = DefaultBuild
    /\ session_state = EmptySession
    /\ widgets = {}
    /\ screen = "none"
    /\ rerun_pending = FALSE
    /\ fault = ""
    /\ raw_shown = NoneDict
    /\ error_shown = ""
    /\ backend_result = NoneDict
    /\ failure = "none"
    /\ continent = NoContinent
    /\ customers = <<>>
    /\ cdata = NoneFrame
    /\ wrapper_call = NoCall
    /\ clicked = ""
    /\ requests = <<>>
    /\ lookup = NoLookup
    /\ company_df = EmptyFrame
    /\ leads_result = <<>>
    /\ logged_out_of = ""
    /\ called_again = FALSE
    /\ utilsfe_country_to_continent = country_to_continent
    /\ details = NoDetails
    /\ potential_customers_df = EmptyFrame

Called(wrapper, x, ended) ==
    /\ wrapper_call' = [x |-> x, wrapper |-> wrapper, ended |-> ended]
    /\ UNCHANGED <<build, session_state, widgets, screen, rerun_pending, fault,
                   raw_shown, error_shown, backend_result, failure, continent,
                   customers, cdata, clicked, requests,
                   potential_customers_df,
                   details,
                   utilsfe_country_to_continent,
                   called_again,
                   logged_out_of,
                   leads_result,
                   company_df,
                   lookup>>

CallBackend ==
    \E x \in WrapperExchanges : Called("call_backend", x, try_call_backend(x))

CallContinentAnalysisBackend ==
    \E x \in WrapperExchanges :
        Called("call_continent_analysis_backend", x, try_call_continent_analysis_backend(x))

CallPotentialCustomersBackend ==
    \E x \in WrapperExchanges :
        Called("call_potential_customers_backend", x,
               try_call_potential_customers_backend(x))

FetchCustomerDetailsFromBlob ==
    \E x \in WrapperExchanges :
        Called("fetch_customer_details_from_blob", x,
               try_fetch_customer_details_from_blob(x))

NextWrappers ==
    \/ CallBackend
    \/ CallContinentAnalysisBackend
    \/ CallPotentialCustomersBackend
    \/ FetchCustomerDetailsFromBlob

SpecWrappers == InitWrappers /\ [][NextWrappers]_vars

InitDetails ==
    /\ build = DefaultBuild
    /\ session_state = EmptySession
    /\ widgets = {}
    /\ screen = "none"
    /\ rerun_pending = FALSE
    /\ fault = ""
    /\ raw_shown = NoneDict
    /\ error_shown = ""
    /\ backend_result = NoneDict
    /\ failure = "none"
    /\ continent = NoContinent
    /\ customers = <<>>
    /\ cdata = NoneFrame
    /\ wrapper_call = NoCall
    /\ clicked = ""
    /\ requests = <<>>
    /\ lookup = NoLookup
    /\ company_df = EmptyFrame
    /\ leads_result = <<>>
    /\ logged_out_of = ""
    /\ called_again = FALSE
    /\ utilsfe_country_to_continent = country_to_continent
    /\ \E cols \in ColumnLists : potential_customers_df \in DetailTables(cols)
    /\ details = NoDetails

render_potential_customers_results ==
    /\ details' = customer_details(potential_customers_df)
    /\ UNCHANGED <<build, session_state, widgets, screen, rerun_pending, fault,
                   raw_shown, error_shown, backend_result, failure, continent,
                   customers, cdata, wrapper_call, clicked, requests,
                   potential_customers_df,
                   utilsfe_country_to_continent,
                   called_again,
                   logged_out_of,
                   leads_result,
                   company_df,
                   lookup>>

NextDetails == render_potential_customers_results

SpecDetails == InitDetails /\ [][NextDetails]_vars

\* ui_components.render_potential_customers_results on a leads reply and a
\* company table
InitLookup ==
    /\ build = DefaultBuild
    /\ session_state = EmptySession
    /\ widgets = {}
    /\ screen = "none"
    /\ rerun_pending = FALSE
    /\ fault = ""
    /\ raw_shown = NoneDict
    /\ error_shown = ""
    /\ backend_result = NoneDict
    /\ failure = "none"
    /\ continent = NoContinent
    /\ customers = <<>>
    /\ cdata = NoneFrame
    /\ wrapper_call = NoCall
    /\ clicked = ""
    /\ requests = <<>>
    /\ lookup = NoLookup
    /\ \E cols \in CompanyColumnLists : company_df \in CompanyTables(cols)
    /\ leads_result \in LeadsResults
    /\ logged_out_of = ""
    /\ called_again = FALSE
    /\ utilsfe_country_to_continent = country_to_continent
    /\ details = NoDetails
    /\ potential_customers_df = EmptyFrame

render_potential_customers_results_of_leads ==
    /\ lookup = NoLookup
    /\ \E blob_result \in BlobResults :
           LET o == potential_customers_lookup(leads_result, company_df, blob_result)
           IN /\ lookup' = o
              /\ potential_customers_df' = o.df
              /\ details' = IF o.section = "error" THEN NoDetails
                            ELSE customer_details(o.df)
    /\ UNCHANGED <<build, session_state, widgets, screen, rerun_pending, fault,
                   raw_shown, error_shown, backend_result, failure, continent,
                   customers, cdata, wrapper_call, clicked, requests,
                   utilsfe_country_to_continent, called_again, logged_out_of,
                   leads_result, company_df>>

NextLookup == render_potential_customers_results_of_leads

SpecLookup == InitLookup /\ [][NextLookup]_vars

(***************************************************************************)
(* Properties of the normalization of a clustering response.               *)
(***************************************************************************)
ClusteringResult == session_state["clustering_result"]
ClusteredDf == session_state["clustered_df_display"]
HeatmapData == session_state["heatmap_data_display"]

IsCount(cell) == cell.k = "int" /\ cell.n >= 0

\* a valid clustering response: every country is mapped to a mapping that
\* has integer counts for the segments "0", "1", "2"
ValidClusterResponse(body) ==
    \A i \in 1..Len(body) :
        /\ body[i][2].t = "map"
        /\ \A seg \in {"0", "1", "2"} : Has(body[i][2].m, seg)
        /\ \A j \in 1..Len(body[i][2].m) : IsCount(body[i][2].m[j][2])

\* the run that just ended normalized the valid response backend_result
NormalizedValid ==
    /\ "heatmap_data_display" \in DOMAIN session_state
    /\ ~HeatmapData.none
    /\ ~backend_result.none
    /\ ValidClusterResponse(backend_result.v)

RowTotal(row) == SumSeq([j \in 1..Len(row) |-> row[j].n])
\* the position of a country of the heatmap table in the response
PlaceInResponse(cell) == IndexOf(Keys(backend_result.v), cell.s)

\* C1: for every valid clustering response the stored heatmap table lists
\* the countries in descending order of Premium+Frequent+Budget, and two
\* countries with equal totals keep the order they had in the response.
C1_DescendingStableTies ==
    NormalizedValid =>
        LET hm == HeatmapData.v
        IN \A a, b \in 1..Len(hm.data) : a < b =>
               \/ RowTotal(hm.data[a]) > RowTotal(hm.data[b])
               \/ /\ RowTotal(hm.data[a]) = RowTotal(hm.data[b])
                  /\ PlaceInResponse(hm.index[a]) < PlaceInResponse(hm.index[b])

\* the part of C1 that every build keeps: descending totals
DescendingTotals ==
    NormalizedValid =>
        LET hm == HeatmapData.v
        IN \A a, b \in 1..Len(hm.data) : a < b =>
               RowTotal(hm.data[a]) >= RowTotal(hm.data[b])

\* the run that just ended received the valid response backend_result
ReceivedValid ==
    /\ ~backend_result.none
    /\ ~Has(backend_result.v, "error")
    /\ ValidClusterResponse(backend_result.v)

\* C2: for every valid clustering response the heatmap table has exactly one
\* row per country of the response and exactly the fields Country (the
\* index), Premium, Frequent, Budget; the helper column Total is not in it.
C2_OneRowPerCountry ==
    ReceivedValid =>
        /\ ~HeatmapData.none
        /\ Len(HeatmapData.v.data) = Len(backend_result.v)
        /\ Len(HeatmapData.v.index) = Len(backend_result.v)
        /\ \A i \in 1..Len(backend_result.v) :
               Cardinality({a \in 1..Len(HeatmapData.v.index) :
                   HeatmapData.v.index[a] = StrCell(backend_result.v[i][1])}) = 1
        /\ HeatmapData.v.columns = SegmentLabels
        /\ ~Contains(HeatmapData.v.columns, "Total")

\* what C2 says of the valid responses that name at least one country
OneRowPerCountryNonEmpty ==
    (ReceivedValid /\ Len(backend_result.v) > 0) => C2_OneRowPerCountry

C4_ErrorViewShowsRawResponse ==
    [][(failure = "processing" /\ rerun_pending) =>
           (screen' = "error" /\ raw_shown' = backend_result)]_vars

TransportOutcomes == {call_backend(x) : x \in FailedExchanges}
ProcessingExceptions == {"KeyError", "TypeError", "AttributeError", "ValueError"}
ProcessingOutcomes == {ErrorDict(processing_error_message(e)) : e \in ProcessingExceptions}

\* C5: a processing failure and a transport failure never leave the same
\* recorded error outcome: what a failed normalization stores is no result
\* of a failed exchange, and what a failed exchange stores is no result of
\* a failed normalization.
C5_DistinctOutcomes ==
    /\ failure = "processing" => ClusteringResult.v \notin TransportOutcomes
    /\ failure = "transport" => ClusteringResult.v \notin ProcessingOutcomes

C5_Witness ==
    /\ failure = "processing"
    /\ ClusteringResult.v \in ProcessingOutcomes
    /\ rerun_pending

(***************************************************************************)
(* Properties of the local continent aggregation.                          *)
(***************************************************************************)
FiveContinents == <<"Europe", "Asia", "Oceania", "South America", "North America">>

\* the country of the cell is listed under the continent in the static table
ListedUnder(cell, cont) ==
    /\ cell.k = "str"
    /\ \E i \in 1..Len(continent_to_countries) :
           /\ continent_to_countries[i][1] = cont
           /\ Contains(continent_to_countries[i][2], cell.s)

\* the country of the cell is in the static country-to-continent table
Known(cell) == \E i \in 1..Len(FiveContinents) : ListedUnder(cell, FiveContinents[i])

CustomerIDs == {customers[i].CustomerID : i \in 1..Len(customers)}
\* the first row of the table that carries the id
FirstRow(id) ==
    customers[CHOOSE i \in 1..Len(customers) :
                  /\ customers[i].CustomerID = id
                  /\ \A j \in 1..(i - 1) : customers[j].CustomerID # id]

\* the count the returned table reports for the continent
CountOf(cont) ==
    cdata.v.data[CHOOSE i \in 1..Len(cdata.v.data) : cdata.v.data[i][1] = StrCell(cont)][2]

\* C6: the table customer_continent_graph returns has exactly five rows, in
\* the order Europe, Asia, Oceania, South America, North America, each with
\* a non-negative integer count; a continent no row of the input belongs to
\* has count 0, and there is no row 'Other' or 'All'.
C6_FiveFixedRows ==
    ~cdata.none =>
        /\ cdata.v.columns = <<"Continent", "Customer_Count">>
        /\ Len(cdata.v.data) = Len(FiveContinents)
        /\ \A i \in 1..Len(cdata.v.data) :
               /\ i <= Len(FiveContinents)
               /\ cdata.v.data[i][1] = StrCell(FiveContinents[i])
               /\ cdata.v.data[i][1].s \notin {"Other", "All"}
               /\ IsCount(cdata.v.data[i][2])
               /\ (\A r \in 1..Len(customers) :
                       ~ListedUnder(customers[r].Country, FiveContinents[i]))
                      => cdata.v.data[i][2] = IntCell(0)

\* a table with a customer of an unlisted country, a continent without
\* customers and a continent with one
C6_Witness ==
    /\ ~cdata.none
    /\ \E r \in 1..Len(customers) : customers[r].Country = StrCell("Narnia")
    /\ CountOf("Asia") = IntCell(0)
    /\ CountOf("Europe").n > 0

\* C7: the five counts sum to at most the number of distinct CustomerIDs,
\* and to exactly that number when the country of every de-duplicated
\* customer is in the static table; a customer whose country is not in the
\* table is in none of the five counts, so the sum is the number of
\* customers whose country is in the table.
C7_SumBoundedByCustomers ==
    ~cdata.none =>
        LET total == ColumnSum(cdata.v, "Customer_Count")
        IN /\ total <= Cardinality(CustomerIDs)
           /\ (\A id \in CustomerIDs : Known(FirstRow(id).Country))
                  => total = Cardinality(CustomerIDs)
           /\ total = Cardinality({id \in CustomerIDs : Known(FirstRow(id).Country)})

\* a table with more rows than customers, one customer of a listed and one
\* of an unlisted country
C7_Witness ==
    /\ ~cdata.none
    /\ Len(customers) > Cardinality(CustomerIDs)
    /\ \E id \in CustomerIDs : ~Known(FirstRow(id).Country)
    /\ ColumnSum(cdata.v, "Customer_Count") > 0
    /\ ColumnSum(cdata.v, "Customer_Count") < Cardinality(CustomerIDs)

\* C8: a customer with several rows is counted once, under the continent of
\* the country of the first of them: every count is the number of customers
\* whose first row carries a country of that continent.
C8_FirstOccurrenceWins ==
    ~cdata.none =>
        \A i \in 1..Len(FiveContinents) :
            CountOf(FiveContinents[i]) =
                IntCell(Cardinality({id \in CustomerIDs :
                            ListedUnder(FirstRow(id).Country, FiveContinents[i])}))

\* a customer whose first row is in Europe and whose later row is in Asia
C8_Witness ==
    /\ ~cdata.none
    /\ \E a, b \in 1..Len(customers) :
           /\ a < b
           /\ customers[a].CustomerID = customers[b].CustomerID
           /\ customers[a] = FirstRow(customers[a].CustomerID)
           /\ ListedUnder(customers[a].Country, "Europe")
           /\ ListedUnder(customers[b].Country, "Asia")
    /\ CountOf("Europe").n > 0
    /\ CountOf("Asia") = IntCell(0)

(***************************************************************************)
(* Properties of the flattening of a continent-analysis response.          *)
(***************************************************************************)
ContinentData == continent.continent_data

\* a valid continent response: every entry is a mapping with a numeric
\* customer_count and a numeric total_revenue
ValidContinentResponse(body) ==
    \A i \in 1..Len(body) :
        /\ body[i][2].t = "map"
        /\ Has(body[i][2].m, "customer_count")
        /\ Has(body[i][2].m, "total_revenue")
        /\ \A j \in 1..Len(body[i][2].m) : IsCount(body[i][2].m[j][2])

\* the row the entry of the response flattens to
FlatRow(entry) ==
    <<StrCell(entry[1]), Get(entry[2].m, "customer_count"), Get(entry[2].m, "total_revenue")>>
\* the position in the response of the entry a row of the table came from
EntryOfRow(row) == IndexOf(Keys(ContinentData.v), row[1].s)

\* C9: for a valid continent response the rendered table has exactly one
\* row {Continent, Customer_Count, Total_Revenue} per entry, in descending
\* order of Total_Revenue, entries with equal Total_Revenue in the order of
\* the response.
C9_OneRowPerEntrySorted ==
    (~ContinentData.none /\ ValidContinentResponse(ContinentData.v)) =>
        /\ continent.status = "rendered"
        /\ continent.table.columns = ContinentColumns
        /\ Len(continent.table.data) = Len(ContinentData.v)
        /\ \A i \in 1..Len(ContinentData.v) :
               Cardinality({a \in 1..Len(continent.table.data) :
                   continent.table.data[a] = FlatRow(ContinentData.v[i])}) = 1
        /\ \A a, b \in 1..Len(continent.table.data) : a < b =>
               \/ continent.table.data[a][3].n > continent.table.data[b][3].n
               \/ /\ continent.table.data[a][3].n = continent.table.data[b][3].n
                  /\ EntryOfRow(continent.table.data[a]) < EntryOfRow(continent.table.data[b])

\* what every build keeps of C9 for the responses with at least one entry:
\* one row per entry, descending Total_Revenue
FlattenedDescending ==
    (~ContinentData.none /\ ValidContinentResponse(ContinentData.v)
        /\ Len(ContinentData.v) > 0) =>
        /\ continent.status = "rendered"
        /\ Len(continent.table.data) = Len(ContinentData.v)
        /\ \A i \in 1..Len(ContinentData.v) :
               Cardinality({a \in 1..Len(continent.table.data) :
                   continent.table.data[a] = FlatRow(ContinentData.v[i])}) = 1
        /\ \A a, b \in 1..Len(continent.table.data) : a < b =>
               continent.table.data[a][3].n >= continent.table.data[b][3].n

\* an entry of the response lacks customer_count or total_revenue
LacksMetric(body) ==
    \E i \in 1..Len(body) :
        /\ body[i][2].t = "map"
        /\ ~(Has(body[i][2].m, "customer_count") /\ Has(body[i][2].m, "total_revenue"))

\* C10: when an entry of the continent response lacks customer_count or
\* total_revenue, the run of the Analyze Continents click shows an error
\* message and ends without an uncaught exception.
C10_MissingMetricReported ==
    (~ContinentData.none /\ LacksMetric(ContinentData.v)) =>
        /\ fault = ""
        /\ continent.status = "error"
        /\ continent.message # ""

\* the sum of one metric over the entries of the response
ResponseSum(body, metric) ==
    SumSeq([i \in 1..Len(body) |-> Get(body[i][2].m, metric).n])

\* C11: for a valid continent response the averaging raises nothing; the
\* average revenue per customer is 0 when the customer counts sum to zero
\* (a response without entries included) and otherwise the sum of
\* total_revenue divided by the sum of customer_count.
C11_AverageGuarded ==
    (~ContinentData.none /\ ValidContinentResponse(ContinentData.v)) =>
        /\ fault = ""
        /\ continent.status = "rendered"
        /\ IF ResponseSum(ContinentData.v, "customer_count") = 0
           THEN continent.avg_revenue_per_customer.num = 0
           ELSE continent.avg_revenue_per_customer.num
                    * ResponseSum(ContinentData.v, "customer_count")
                = ResponseSum(ContinentData.v, "total_revenue")
                    * continent.avg_revenue_per_customer.den

\* what C11 says of the responses with at least one entry
AverageGuardedNonEmpty ==
    (~ContinentData.none /\ Len(ContinentData.v) > 0) => C11_AverageGuarded

\* a rendered response whose customer counts sum to zero while its revenue
\* does not
ZeroCustomersRendered ==
    /\ ~ContinentData.none
    /\ ValidContinentResponse(ContinentData.v)
    /\ Len(ContinentData.v) > 0
    /\ ResponseSum(ContinentData.v, "customer_count") = 0
    /\ ResponseSum(ContinentData.v, "total_revenue") > 0
    /\ continent.status = "rendered"

(***************************************************************************)
(* Properties of the backend wrappers.                                     *)
(***************************************************************************)
\* the exchange ended in a 200 response with a JSON body
DecodableOk(x) == x.outcome = "response" /\ x.status = 200 /\ x.is_json

\* C12: no call of call_backend, call_continent_analysis_backend,
\* call_potential_customers_backend or fetch_customer_details_from_blob
\* raises; for a 200 response with a JSON body the call returns the decoded
\* body, and for every other outcome of the exchange (an exception of the
\* request, a status other than 200, a 200 body that is not JSON) it
\* returns a mapping whose key "error" holds a message.
C12_WrappersNeverRaise ==
    wrapper_call.wrapper # "" =>
        /\ ~wrapper_call.ended.raised
        /\ IF DecodableOk(wrapper_call.x)
           THEN wrapper_call.ended.value = wrapper_call.x.body
           ELSE /\ Has(wrapper_call.ended.value, "error")
                /\ Get(wrapper_call.ended.value, "error").t = "text"
                /\ Get(wrapper_call.ended.value, "error").msg # ""

\* call_potential_customers_backend got a 200 response whose body is not
\* JSON, from a requests that raises json's own JSONDecodeError
C12_Witness ==
    /\ wrapper_call.wrapper = "call_potential_customers_backend"
    /\ wrapper_call.x.status = 200
    /\ ~wrapper_call.x.is_json
    /\ wrapper_call.x.exc_type = "JSONDecodeError"
    /\ Has(wrapper_call.ended.value, "error")

(***************************************************************************)
(* Properties of the session: requests, recovery, session state.           *)
(***************************************************************************)
\* the button whose click sends the request
ButtonOf(request) ==
    IF request = "cluster" THEN "Run Clustering"
    ELSE IF request = "continent-analysis" THEN "Analyze Continents"
    ELSE "Login"

\* C13: a script run sends at most one backend request, and only the run
\* started by the click of the request's own button sends it: a run started
\* by st.rerun() or by another button sends none, so a failed request is
\* repeated only by a new click.
C13_RequestsOnlyOnClick ==
    /\ Len(requests) <= 1
    /\ \A i \in 1..Len(requests) : clicked = ButtonOf(requests[i])

\* the rerun after a failed normalization: the error view is shown and no
\* request was sent
C13_Witness ==
    /\ clicked = ""
    /\ screen = "error"
    /\ requests = <<>>
    /\ Truthy(session_state["clustering_result"])

\* the session is logged in and holds the three values of the company
LoggedInApp ==
    /\ "logged_in" \in DOMAIN session_state
    /\ session_state["logged_in"]
    /\ {"company_identifier", "company_data", "total_records"} \subseteq DOMAIN session_state

\* a clustering failure is stored in the session
StoredFailure ==
    /\ LoggedInApp
    /\ Truthy(ClusteringResult)
    /\ Has(ClusteringResult.v, "error")

GoodLoginExchange == CHOOSE x \in GoodLogin : TRUE

\* the run the click starts on the session state ss0, followed by the run of
\* st.rerun() when the first one asks for it; a Login click is answered by a
\* successful login
AfterClick(ss0, click) ==
    LET o == script_on(ss0, click, "1", GoodLoginExchange, NoExchange, NoExchange)
    IN IF o.rerun THEN script_on(o.ss, "", "", NoExchange, NoExchange, NoExchange) ELSE o

\* what the user has in front of them: the last run, or the run st.rerun()
\* is about to start
CurrentView ==
    IF rerun_pending
    THEN script_on(session_state, "", "", NoExchange, NoExchange, NoExchange)
    ELSE [StartRunOn(session_state) EXCEPT !.ss = session_state, !.widgets = widgets]

\* the initial view of the clustering tab: Run Clustering is rendered and
\* its click sends a clustering request
RunClusteringSends(ss0, rendered) ==
    /\ "Run Clustering" \in rendered
    /\ script_on(ss0, "Run Clustering", "", NoExchange, NoExchange, NoExchange).requests
           = <<"cluster">>

\* some sequence of at most depth clicks on the buttons brings the initial
\* view back
RECURSIVE CanRestart(_, _, _, _)
CanRestart(ss0, rendered, buttons, depth) ==
    \/ RunClusteringSends(ss0, rendered)
    \/ /\ depth > 0
       /\ \E b \in rendered \cap buttons :
              CanRestart(AfterClick(ss0, b).ss, AfterClick(ss0, b).widgets,
                         buttons, depth - 1)

ClusteringButtons == {"Run Clustering", "Try Clustering Again", "Re-run Clustering"}
SessionButtons == ClusteringButtons \cup {"Logout", "Login"}

\* C14: no clustering failure is fatal.  From every state of a logged-in
\* session some sequence of clicks brings back the initial view of the
\* clustering tab, where a click on Run Clustering sends a new request; and
\* while a clustering failure (a transport error or a processing error) is
\* stored in the session, clicks on the buttons of the clustering tab alone
\* do so, without logging out.
C14_FailureNotFatal ==
    /\ LoggedInApp =>
           CanRestart(CurrentView.ss, CurrentView.widgets, SessionButtons,
                      MaxRecoveryClicks)
    /\ StoredFailure =>
           CanRestart(CurrentView.ss, CurrentView.widgets, ClusteringButtons,
                      MaxRecoveryClicks)

\* a transport failure was just shown: Run Clustering is still on the page
\* but its click would show the error view and send nothing
C14_Witness ==
    /\ failure = "transport"
    /\ StoredFailure
    /\ ~rerun_pending
    /\ "Run Clustering" \in widgets
    /\ ~RunClusteringSends(session_state, widgets)

\* the results view of a stored table that cannot be plotted: every run of
\* the logged-in session ends in the exception and only Logout is rendered
ResultsViewFaults ==
    /\ LoggedInApp
    /\ ~rerun_pending
    /\ screen = "results"
    /\ fault # ""
    /\ widgets = {"Logout"}

\* the candidate names of a field: the canonical name, then its aliases
Candidates(field) == <<field>> \o Get(alternatives, field)

\* the first candidate of the field among the labels, NoColumn if none
FirstPresent(field, columns) ==
    IF \E i \in 1..Len(Candidates(field)) : Contains(columns, Candidates(field)[i])
    THEN Candidates(field)[
             CHOOSE i \in 1..Len(Candidates(field)) :
                 /\ Contains(columns, Candidates(field)[i])
                 /\ \A j \in 1..(i - 1) : ~Contains(columns, Candidates(field)[j])]
    ELSE NoColumn

Fields == Range(required_columns)
Resolved(field) == FirstPresent(field, potential_customers_df.columns) # NoColumn

\* C15: every field of the customer details resolves to the first of its
\* candidate names (the canonical name, then the aliases as listed) that is
\* a column of the records.  A field with no candidate present is left out
\* of the table shown, and only what depends on it is switched off: the
\* country or city filter, or the phone export (a disabled button) and the
\* phone list; every resolved field is shown under its canonical name with
\* the cells of the resolved column, and no exception ends the view.
C15_FirstCandidateWins ==
    details.section \in {"table", "warning"} =>
        /\ details.fault = ""
        /\ \A i \in 1..Len(required_columns) :
              /\ details.column_mapping[i][1] = required_columns[i]
              /\ details.column_mapping[i][2] =
                     FirstPresent(required_columns[i], potential_customers_df.columns)
        /\ details.section = "table" <=> \E f \in Fields : Resolved(f)
        /\ details.section = "table" =>
              /\ Range(details.df.columns) = {f \in Fields : Resolved(f)}
              /\ \A f \in Fields : Resolved(f) =>
                     Column(details.df, f) =
                         Column(potential_customers_df,
                                FirstPresent(f, potential_customers_df.columns))
              /\ details.country_filter = Resolved("Country")
              /\ details.city_filter = Resolved("City")
              /\ details.phone_expander = Resolved("Phone")
              /\ ~Resolved("Phone") <=>
                     details.phone_button = "Phone Numbers Not Available (disabled)"

\* only aliases of the phone and city fields are present, two of the phone
\* field with different cells: the first listed one is shown
C15_Witness ==
    /\ details.section = "table"
    /\ ~Contains(potential_customers_df.columns, "Phone")
    /\ Contains(potential_customers_df.columns, "Phone_Number")
    /\ Contains(potential_customers_df.columns, "PhoneNumber")
    /\ Column(potential_customers_df, "Phone_Number")
           # Column(potential_customers_df, "PhoneNumber")
    /\ Contains(potential_customers_df.columns, "city")
    /\ details.phone_button = "Download Phone Numbers"

\* no candidate of the phone field is present: the table is shown with the
\* other fields and the phone export is a disabled button
PhoneExportDisabled ==
    /\ details.section = "table"
    /\ ~Resolved("Phone")
    /\ Resolved("FirstName")
    /\ details.phone_button = "Phone Numbers Not Available (disabled)"

\* the segment keys that occur in a clustering response
SegmentKeys(body) ==
    UNION {Range(Keys(body[i][2].m)) : i \in {j \in 1..Len(body) : body[j][2].t = "map"}}

\* the label the fixed renaming gives a segment key
LabelOf(key) ==
    IF key = "0" THEN "Premium"
    ELSE IF key = "1" THEN "Frequent"
    ELSE IF key = "2" THEN "Budget"
    ELSE key

\* the run normalized the response it received and stored both tables
Normalized ==
    /\ ~backend_result.none
    /\ ~Has(backend_result.v, "error")
    /\ ~ClusteredDf.none
    /\ ~HeatmapData.none

\* C16: the segment keys "0", "1", "2" of a clustering response become the
\* columns Premium, Frequent, Budget, and every other segment key of the
\* response is a column of the normalized tables under its own name: of the
\* clustered table and of the heatmap table made from it.
C16_SegmentKeysRetained ==
    Normalized =>
        \A key \in SegmentKeys(backend_result.v) :
            /\ Contains(ClusteredDf.v.columns, LabelOf(key))
            /\ Contains(HeatmapData.v.columns, LabelOf(key))

\* what holds: the clustered table has a column for every segment key, the
\* three known ones renamed, and the heatmap table has the three renamed
\* columns only
RenamedInClusteredTable ==
    Normalized =>
        /\ \A key \in SegmentKeys(backend_result.v) :
               Contains(ClusteredDf.v.columns, LabelOf(key))
        /\ Range(ClusteredDf.v.columns) =
               {"Country"} \cup {LabelOf(key) : key \in SegmentKeys(backend_result.v)}
        /\ HeatmapData.v.columns = <<"Premium", "Frequent", "Budget">>

\* a response with the segment key "3" was normalized
ExtraSegmentNormalized ==
    /\ Normalized
    /\ "3" \in SegmentKeys(backend_result.v)
    /\ Contains(ClusteredDf.v.columns, "3")
    /\ ~Contains(HeatmapData.v.columns, "3")

\* C17: a call of customer_continent_graph leaves the module-level
\* country-to-continent dict as it was built at import and leaves the
\* caller's table as it was; the table it returns is the one computed from
\* the caller's table and the static dict alone, so a second call on the
\* same table returns the same table as the first.
C17_CallsShareNothing ==
    [][/\ utilsfe_country_to_continent' = country_to_continent
       /\ customers' = customers
       /\ cdata' = SomeFrame(customer_continent_graph(customers))
       /\ ~cdata.none => cdata' = cdata]_vars

\* the second call on a table with a repeated customer and a country that
\* is not in the dict
C17_Witness ==
    /\ called_again
    /\ Len(customers) > Cardinality(CustomerIDs)
    /\ \E r \in 1..Len(customers) : customers[r].Country = StrCell("Narnia")
    /\ \E r \in 1..Len(customers) : customers[r].Country = StrCell("Japan")

\* the session state a script run works on once lines 237-247 have run
AtRunStart == init_session_state(session_state)

LoggedIn == AtRunStart["logged_in"]

\* C18: at the start of every script run of a logged-in session the two
\* stored tables are both None or both set, and when they are set
\* clustering_result holds a response of the backend that has no "error"
\* key: the results view and an error never coexist.
C18_TablesSetTogether ==
    LoggedIn =>
        /\ AtRunStart["clustered_df_display"].none = AtRunStart["heatmap_data_display"].none
        /\ ~AtRunStart["clustered_df_display"].none =>
               /\ ~AtRunStart["clustering_result"].none
               /\ ~Has(AtRunStart["clustering_result"].v, "error")

\* the run that follows a normalization is about to start: both tables are
\* set and the stored response has a country
C18_Witness ==
    /\ LoggedIn
    /\ rerun_pending
    /\ clicked = "Run Clustering"
    /\ ~AtRunStart["clustered_df_display"].none
    /\ ~AtRunStart["heatmap_data_display"].none
    /\ Len(AtRunStart["clustering_result"].v) > 0

\* C19: a logged-in session holds company_identifier, company_data and
\* total_records, whatever the login reply was.
C19_LoggedInHasCompany ==
    LoggedIn =>
        {"company_identifier", "company_data", "total_records"}
            \subseteq DOMAIN session_state

\* the login reply had no "data": the run ended in KeyError with logged_in
\* already set
LoggedInWithoutData ==
    /\ LoggedIn
    /\ clicked = "Login"
    /\ fault = "KeyError"
    /\ "company_data" \notin DOMAIN session_state

\* the form of that page is submitted again: the run, like every later run
\* of the session, ends at line 112 before Logout is rendered
LoggedInAndStuck ==
    /\ LoggedIn
    /\ clicked = "Login"
    /\ fault = "AttributeError"
    /\ widgets = {}

ClusteringKeys == {"clustering_result", "clustered_df_display", "heatmap_data_display"}

\* C20: nothing of the clustering of one login reaches the next.  The run of
\* a Logout click leaves session state without any key; a logged-out
\* session holds no clustering value; the run of a successful login leaves
\* clustering_result and the two tables None, and the run that follows it
\* shows the initial view of the clustering tab with the Run Clustering
\* button, whatever the session before the logout had computed.
C20_NothingCarriesOver ==
    /\ (clicked = "Logout" /\ rerun_pending) => session_state = EmptySession
    /\ ~LoggedIn =>
           /\ AtRunStart["clustering_result"].none
           /\ AtRunStart["clustered_df_display"].none
           /\ AtRunStart["heatmap_data_display"].none
    /\ (clicked = "Login" /\ rerun_pending) =>
           /\ LoggedIn
           /\ ClusteringKeys \subseteq DOMAIN session_state
           /\ session_state["clustering_result"].none
           /\ session_state["clustered_df_display"].none
           /\ session_state["heatmap_data_display"].none
           /\ CurrentView.screen = "initial"
           /\ CurrentView.fault = ""
           /\ "Run Clustering" \in CurrentView.widgets

\* a successful login into a browser session whose last login ended, by
\* Logout, with clustering results on the page
C20_Witness ==
    /\ clicked = "Login"
    /\ rerun_pending
    /\ LoggedIn
    /\ logged_out_of = "results"

\* the same after a login that ended with a clustering error on the page
LoginAfterError ==
    /\ clicked = "Login"
    /\ rerun_pending
    /\ LoggedIn
    /\ logged_out_of = "error"

\* the run st.rerun() is about to start shows the initial view of the
\* clustering tab and sends nothing
InitialViewNext ==
    /\ rerun_pending
    /\ CurrentView.screen = "initial"
    /\ CurrentView.fault = ""
    /\ "Run Clustering" \in CurrentView.widgets
    /\ CurrentView.requests = <<>>

\* C21: the run of a click on Re-run Clustering leaves clustering_result and
\* the two tables None, the run of a click on Try Clustering Again leaves
\* clustering_result None; neither run sends a backend request, and the run
\* that follows shows the initial view with the Run Clustering button.
C21_ButtonsResetTheTab ==
    /\ clicked = "Re-run Clustering" =>
           /\ session_state["clustering_result"].none
           /\ session_state["clustered_df_display"].none
           /\ session_state["heatmap_data_display"].none
           /\ requests = <<>>
           /\ InitialViewNext
    /\ clicked = "Try Clustering Again" =>
           /\ session_state["clustering_result"].none
           /\ requests = <<>>
           /\ InitialViewNext

\* Re-run Clustering was just clicked in the results view
C21_Witness ==
    /\ clicked = "Re-run Clustering"
    /\ screen = "results"
    /\ rerun_pending

\* Try Clustering Again was just clicked in the error view
TriedAgain ==
    /\ clicked = "Try Clustering Again"
    /\ screen = "error"
    /\ rerun_pending

\* both tables of a normalized response are stored in a logged-in session
ResultsStored ==
    /\ LoggedIn
    /\ ~AtRunStart["clustered_df_display"].none
    /\ ~AtRunStart["heatmap_data_display"].none

\* C22: whenever the two tables of a normalized response are stored, the
\* table create_and_display_heatmap computes from clustered_df_display is
\* computed without exception and is the stored heatmap_data_display: the
\* same countries in the same order with the same columns and cells.
C22_RecomputedHeatmapIsStored ==
    ResultsStored =>
        /\ ~heatmap_data_in_view(ClusteredDf.v).raised
        /\ heatmap_data_in_view(ClusteredDf.v).df = HeatmapData.v

\* tables of two countries are stored whose order in the heatmap is not the
\* order of the response
C22_Witness ==
    /\ ResultsStored
    /\ Len(HeatmapData.v.index) = 2
    /\ HeatmapData.v.index # Column(ClusteredDf.v, "Country")
    /\ screen = "results"
    /\ fault = ""

\* the same with two countries of equal totals
StoredWithTies ==
    /\ ResultsStored
    /\ Len(HeatmapData.v.data) = 2
    /\ HeatmapData.v.data[1] = HeatmapData.v.data[2]
    /\ HeatmapData.v.index[1] # HeatmapData.v.index[2]

\* the ids the leads service returned, whether written as ints, floats or
\* numerals
LeadIds ==
    {n \in 1..MaxCustomerID :
        \E i \in 1..Len(leads_result) : \E j \in 1..Len(leads_result[i][2].m) :
            LET id == leads_result[i][2].m[j]
            IN IF id.k = "str" THEN id.s = ToString(n) ELSE id.n = n}

\* a row of the company table holds the id in the first id column present
InCompany(n) ==
    LET col == FirstPresent("CustomerID", company_df.columns)
    IN /\ col # NoColumn
       /\ \E r \in 1..Len(company_df.data) :
              LET cell == company_df.data[r][IndexOf(company_df.columns, col)]
              IN cell.k \in {"int", "float"} /\ cell.n = n

\* C23: when the results view handles a leads reply, every customer id of
\* the reply is matched by a row of the company table (in the first present
\* column among CustomerID, ID, customer_id, id) or is in the list sent to
\* fetch_customer_details_from_blob; the fetch is issued exactly when some id
\* is unmatched, and its list is the unmatched ids and holds no matched id.
C23_UnmatchedIdsAreFetched ==
    lookup.section = "lookup" =>
        /\ \A n \in LeadIds : InCompany(n) \/ n \in lookup.missing_customer_ids
        /\ lookup.fetched <=> lookup.missing_customer_ids # {}
        /\ lookup.fetched <=> \E n \in LeadIds : ~InCompany(n)
        /\ lookup.missing_customer_ids = {n \in LeadIds : ~InCompany(n)}
        /\ \A n \in lookup.missing_customer_ids : ~InCompany(n)

\* two id columns are present, the one listed first is the second of the
\* table; one id of the reply is in it and one is fetched
C23_Witness ==
    /\ lookup.section = "lookup"
    /\ company_df.columns = <<"id", "CustomerID">>
    /\ lookup.fetched
    /\ \E n, m \in LeadIds : InCompany(n) /\ m \in lookup.missing_customer_ids

\* every id of the reply is in the company table: nothing is fetched
NothingToFetch ==
    /\ lookup.section = "lookup"
    /\ LeadIds # {}
    /\ ~lookup.fetched

\* the company table has no id column: every id is fetched
NoIdColumn ==
    /\ lookup.section = "lookup"
    /\ lookup.customer_id_col = NoColumn
    /\ lookup.fetched
    /\ lookup.missing_customer_ids = LeadIds

====
